---------------------------- MODULE Spec2Model ----------------------------
(***************************************************************************)
(* Solar Symmetry: the date-symmetry calculation (DateCalculations), the   *)
(* twilight lookup and batch fetch (TwilightClient), the month load and    *)
(* the location search of the application (SolarSymmetryApp,               *)
(* GeocodingClient) and the pull-to-refresh gesture (PullToRefresh).       *)
(*                                                                         *)
(* A JavaScript Date is modelled as its time value, in whole hours since   *)
(* 1970-01-01T00:00Z.  The browser's time zone is part of the state: local *)
(* calendar fields are read through it, as the engine does.                *)
(***************************************************************************)
EXTENDS Integers, Sequences, FiniteSets, TLC

VARIABLES
    tz,      \* the browser's time zone
    now,     \* Date.now(), in hours
    cache,   \* TwilightClient.cache: cache key -> [data, timestamp]
    dpc,     \* DateCalculations call under check: "ready", or the method that returned
    darg,    \* its Date argument
    dret,    \* its return value
    bdates,  \* getBatchTwilightTimes under check: its dates argument
    bloc,    \* its location argument
    bcall,   \* the call in progress, or the last one made
    bcalls,  \* calls made so far
    currentMonth,     \* SolarSymmetryApp.currentMonth, a Date
    currentLocation,  \* SolarSymmetryApp.currentLocation, a location or null
    currentView,      \* SolarSymmetryApp.currentView
    city1,            \* SolarSymmetryApp.city1, a location or null
    city2,            \* SolarSymmetryApp.city2
    isLoading,        \* SolarSymmetryApp.isLoading
    shown,            \* what the date columns of each view show
    loads,            \* the month loads started so far, in order of their start
    events,           \* user events handled so far
    overlap,          \* steps taken while several loads were in flight
    lookup,           \* getTwilightTimes under check: the call in progress or the last made
    search,           \* the location search: input, debounce timer, requests, dropdown
    pull              \* PullToRefresh: its fields and the touch gesture in progress

envVars == <<tz, now>>
dateVars == <<dpc, darg, dret>>
batchVars == <<bdates, bloc, bcall, bcalls, lookup>>
appVars ==
    <<currentMonth, currentLocation, currentView, city1, city2, isLoading, shown, loads, events,
     overlap>>
uiVars == <<search, pull>>
vars ==
    <<tz, now, cache, dpc, darg, dret, bdates, bloc, bcall, bcalls,
      currentMonth, currentLocation, currentView, city1, city2, isLoading, shown, loads, events,
      overlap, lookup, search, pull>>

(***************************************************************************)
(* Bounds of the model.                                                     *)
(***************************************************************************)
FirstYear == 2023
NumYears == 3
MaxDates == 5
MaxCalls == 2
MaxLoads == 2
MaxEvents == 2
MaxOverlap == 2
MaxLookups == 3
MaxClock == 48

(***************************************************************************)
(* The Date primitive of the engine: proleptic Gregorian calendar.          *)
(***************************************************************************)
HoursPerDay == 24

\* the day number of the calendar date y-m-d (m in 1 .. 12, d any integer)
DaysOfEra(era, yoe, doy) ==
    era * 146097 + yoe * 365 + yoe \div 4 - yoe \div 100 + doy - 719468

DaysOfYear(yy, doy) == DaysOfEra(yy \div 400, yy % 400, doy)

DaysFromCivil(y, m, d) ==
    DaysOfYear(IF m <= 2 THEN y - 1 ELSE y,
               (153 * (IF m > 2 THEN m - 3 ELSE m + 9) + 2) \div 5 + d - 1)

\* the calendar date of the day number z
CivilOfMonth(yy, doy, mp) ==
    [y |-> yy + (IF mp < 10 THEN 0 ELSE 1),
     m |-> IF mp < 10 THEN mp + 3 ELSE mp - 9,
     d |-> doy - (153 * mp + 2) \div 5 + 1]

CivilOfDayOfYear(yy, doy) == CivilOfMonth(yy, doy, (5 * doy + 2) \div 153)

CivilOfYearOfEra(era, doe, yoe) ==
    CivilOfDayOfYear(yoe + era * 400, doe - (365 * yoe + yoe \div 4 - yoe \div 100))

CivilOfEra(era, doe) ==
    CivilOfYearOfEra(era, doe,
        (doe - doe \div 1460 + doe \div 36524 - doe \div 146096) \div 365)

CivilFromDaysRule(z) == CivilOfEra((z + 719468) \div 146097, (z + 719468) % 146097)

\* the years whose dates the model can reach, with the calendar tabulated for them
ZoneYears == (FirstYear - 2) .. (FirstYear + NumYears + 2)

CivilTable ==
    [z \in DaysFromCivil(FirstYear - 2, 1, 1) .. DaysFromCivil(FirstYear + NumYears + 2, 12, 31)
        |-> CivilFromDaysRule(z)]

CivilFromDays(z) == CivilTable[z]

\* 0 = Sunday; 1970-01-01 was a Thursday
WeekDay(z) == (z + 4) % 7

\* the n-th Sunday on or after the day number first
SundayFrom(first, n) == first + ((7 - WeekDay(first)) % 7) + 7 * (n - 1)

NthSunday(y, m, n) == SundayFrom(DaysFromCivil(y, m, 1), n)

\* the last Sunday on or before the day number last
SundayUntil(last) == last - WeekDay(last)

LastSunday(y, m) == SundayUntil(DaysFromCivil(y, m + 1, 1) - 1)

(***************************************************************************)
(* Time zones the browser may run in: standard offset from UTC in hours    *)
(* and the daylight-saving rule.                                            *)
(***************************************************************************)
Zones == {"UTC", "NewYork", "Berlin", "Sydney"}

StdOffset(zone) ==
    CASE zone = "UTC" -> 0
      [] zone = "NewYork" -> -5
      [] zone = "Berlin" -> 1
      [] zone = "Sydney" -> 10

\* the instants (UTC hours) at which daylight-saving time starts and ends in year y
DstStartRule(zone, y) ==
    CASE zone = "NewYork" -> NthSunday(y, 3, 2) * HoursPerDay + 2 + 5
      [] zone = "Berlin" -> LastSunday(y, 3) * HoursPerDay + 1
      [] zone = "Sydney" -> NthSunday(y, 10, 1) * HoursPerDay + 2 - 10
      [] OTHER -> 0

DstEndRule(zone, y) ==
    CASE zone = "NewYork" -> NthSunday(y, 11, 1) * HoursPerDay + 1 + 5
      [] zone = "Berlin" -> LastSunday(y, 10) * HoursPerDay + 1
      [] zone = "Sydney" -> NthSunday(y, 4, 1) * HoursPerDay + 2 - 10
      [] OTHER -> 0

\* the rules tabulated for the years the model can reach
DstTable ==
    [zone \in Zones |-> [y \in ZoneYears |->
        [start |-> DstStartRule(zone, y), end |-> DstEndRule(zone, y)]]]

\* whether t lies in the daylight-saving period of the rule of its year
InDstPeriod(zone, t, rule) ==
    CASE zone = "UTC" -> FALSE
      [] zone = "Sydney" -> t < rule.end \/ t >= rule.start
      [] OTHER -> t >= rule.start /\ t < rule.end

IsDst(zone, t) ==
    InDstPeriod(zone, t,
        DstTable[zone][CivilFromDays((t + StdOffset(zone)) \div HoursPerDay).y])

\* local wall-clock hours of the time value t
LocalTime(zone, t) == t + StdOffset(zone) + (IF IsDst(zone, t) THEN 1 ELSE 0)

\* the day number of the local calendar date of t
LocalDay(zone, t) == LocalTime(zone, t) \div HoursPerDay

getFullYear(zone, t) == CivilFromDays(LocalDay(zone, t)).y
getMonth(zone, t) == CivilFromDays(LocalDay(zone, t)).m - 1
getDate(zone, t) == CivilFromDays(LocalDay(zone, t)).d
getHours(zone, t) == LocalTime(zone, t) % HoursPerDay

\* the time value of the local wall-clock hours local: the daylight-saving
\* reading when it exists, the standard one otherwise
TimeOfLocal(zone, local, std) ==
    IF IsDst(zone, local - std - 1) THEN local - std - 1 ELSE local - std

\* the time value of local y / m0 (0-based, any integer) / d (any integer) at hour h
MakeLocal(zone, y, m0, d, h) ==
    TimeOfLocal(zone,
        (DaysFromCivil(y + (m0 \div 12), (m0 % 12) + 1, 1) + d - 1) * HoursPerDay + h,
        StdOffset(zone))

\* new Date(year, monthIndex, day)
NewDate(zone, y, m0, d) == MakeLocal(zone, y, m0, d, 0)

\* date.setDate(n), from the local fields of the date
setDateOfFields(zone, civil, n, h) == MakeLocal(zone, civil.y, civil.m - 1, n, h)

setDateOfLocal(zone, local, n) ==
    setDateOfFields(zone, CivilFromDays(local \div HoursPerDay), n, local % HoursPerDay)

setDate(zone, t, n) == setDateOfLocal(zone, LocalTime(zone, t), n)

Abs(x) == IF x < 0 THEN -x ELSE x

(***************************************************************************)
(* DateCalculations                                                         *)
(***************************************************************************)
SUMMER_SOLSTICE == [month |-> 6, day |-> 21]
WINTER_SOLSTICE == [month |-> 12, day |-> 21]

\* Array.prototype.reduce without an initial value, with the callback of
\* getNearestSolstice: a later entry wins only when strictly nearer
RECURSIVE ReduceNearest(_, _, _)
ReduceNearest(distances, i, nearest) ==
    IF i > Len(distances) THEN nearest
    ELSE ReduceNearest(distances, i + 1,
            IF distances[i].distance < nearest.distance THEN distances[i] ELSE nearest)

\* a search that keeps the first entry of the array
reduce_First(distances) == distances[1]

reduce(distances) == ReduceNearest(distances, 2, distances[1])

\* one entry of the distances array
Distance(date, solstice) == [distance |-> Abs(date - solstice), date |-> solstice]

\* the distances array for a date of the given year
DistancesOfYear(zone, date, year) ==
    << Distance(date, NewDate(zone, year, SUMMER_SOLSTICE.month - 1, SUMMER_SOLSTICE.day)),
       Distance(date, NewDate(zone, year, WINTER_SOLSTICE.month - 1, WINTER_SOLSTICE.day)),
       Distance(date, NewDate(zone, year + 1, WINTER_SOLSTICE.month - 1, WINTER_SOLSTICE.day)),
       Distance(date, NewDate(zone, year - 1, WINTER_SOLSTICE.month - 1, WINTER_SOLSTICE.day)) >>

SolsticeCandidates(zone, date) == DistancesOfYear(zone, date, getFullYear(zone, date))

\* a nearest-solstice search that looks at the two solstices of the date's own year only
getNearestSolstice_SameYear(zone, date) ==
    reduce(SubSeq(SolsticeCandidates(zone, date), 1, 2)).date

getNearestSolstice(zone, date) == reduce(SolsticeCandidates(zone, date)).date

\* the mirror of date about the solstice: daysFromSolstice, then setDate
MirrorAbout(zone, date, nearestSolstice) ==
    setDate(zone, nearestSolstice,
            getDate(zone, nearestSolstice) - (date - nearestSolstice) \div HoursPerDay)

calculateMirrorDate(zone, date) == MirrorAbout(zone, date, getNearestSolstice(zone, date))

\* a day count taken from the month before: new Date(year, month - 1, 0).getDate()
daysInMonth_MonthBefore(zone, year, month) == getDate(zone, NewDate(zone, year, month - 1, 0))

\* new Date(year, month, 0).getDate()
daysInMonth(zone, year, month) == getDate(zone, NewDate(zone, year, month, 0))

getMonthDates(zone, year, month) ==
    [day \in 1 .. daysInMonth(zone, year, month) |-> NewDate(zone, year, month - 1, day)]

\* a comparison of the two instants instead of their date fields
isToday_SameInstant(zone, today, date) == date = today

\* today is new Date() at the time of the call
isToday(zone, today, date) ==
    /\ getDate(zone, date) = getDate(zone, today)
    /\ getMonth(zone, date) = getMonth(zone, today)
    /\ getFullYear(zone, date) = getFullYear(zone, today)

\* one entry of datesData
MirrorEntry(zone, today, currentDate) ==
    [current |-> currentDate,
     mirrored |-> calculateMirrorDate(zone, currentDate),
     isToday |-> isToday(zone, today, currentDate)]

getMonthWithMirrors(zone, today, year, month) ==
    [day \in 1 .. daysInMonth(zone, year, month) |->
        MirrorEntry(zone, today, NewDate(zone, year, month - 1, day))]

\* date.setMonth(m0), from the local fields of the date
setMonthOfFields(zone, civil, m0, h) == MakeLocal(zone, civil.y, m0, civil.d, h)

setMonthOfLocal(zone, local, m0) ==
    setMonthOfFields(zone, CivilFromDays(local \div HoursPerDay), m0, local % HoursPerDay)

setMonth(zone, t, m0) == setMonthOfLocal(zone, LocalTime(zone, t), m0)

getPreviousMonth(zone, currentDate) ==
    setMonth(zone, currentDate, getMonth(zone, currentDate) - 1)

getNextMonth(zone, currentDate) ==
    setMonth(zone, currentDate, getMonth(zone, currentDate) + 1)

\* a check that lets the navigation leave the year
canGoToPreviousMonth_Always(zone, currentDate) == TRUE

canGoToPreviousMonth(zone, currentDate) == getMonth(zone, currentDate) > 0

canGoToNextMonth(zone, currentDate) == getMonth(zone, currentDate) < 11

(***************************************************************************)
(* TwilightClient                                                           *)
(*                                                                         *)
(* A location is [known, lat, lng]: known says that lat and lng are         *)
(* numbers (a location parsed from local storage may lack them); they are   *)
(* held in units of 0.00001 degree.  A TwilightRecord holds its four time   *)
(* fields, error ("" when absent), fallback, and iso: the date key and the  *)
(* rounded coordinates its ISO instants belong to (<<>> when it has none).  *)
(***************************************************************************)
maxCacheAge == 24
batchSize == 2

\* date.toISOString().split('T')[0]: the UTC calendar date of the time value,
\* held as its day number (the YYYY-MM-DD text is one-to-one with it)
formatDateForAPI(date) == date \div HoursPerDay

\* Number.prototype.toFixed(4) of a value held in units of 0.00001
toFixed4(x) == IF x >= 0 THEN (x + 5) \div 10 ELSE -((5 - x) \div 10)

generateCacheKey(date, loc) ==
    <<formatDateForAPI(date), toFixed4(loc.lat), toFixed4(loc.lng)>>

TimeRecord(key) ==
    [dawn |-> "HH:MM", sunrise |-> "HH:MM", sunset |-> "HH:MM", dusk |-> "HH:MM",
     error |-> "", fallback |-> FALSE, iso |-> key]

SentinelRecord(text, message, isFallback) ==
    [dawn |-> text, sunrise |-> text, sunset |-> text, dusk |-> text,
     error |-> message, fallback |-> isFallback, iso |-> <<>>]

\* what the network and the API answer to one request
Outcomes == {"ok", "failed", "malformed"}

\* the answers that make getTwilightTimes throw inside its try block: the request
\* failed, an HTTP status that is not OK, the status 429, an API status other than OK
Thrown == {"failed", "http", "429", "status"}

\* error.message of what is thrown
ErrorMessage(outcome) ==
    CASE outcome = "http" -> "HTTP error! status"
      [] outcome = "429" -> "API rate limit reached - please wait a few minutes"
      [] outcome = "status" -> "API error"
      [] OTHER -> "request failed"

\* processTwilightData: a payload without usable instants ends in its catch
processTwilightData(outcome, key) ==
    IF outcome = "malformed"
    THEN SentinelRecord("N/A", "Data processing failed", FALSE)
    ELSE TimeRecord(key)


\* a lookup that never consults the cache
TwilightStart_NoCache(c, clock, date, loc) ==
    IF ~ loc.known
    THEN [kind |-> "rejected", data |-> SentinelRecord("", "", FALSE), cache |-> c]
    ELSE [kind |-> "fetch", data |-> SentinelRecord("", "", FALSE), cache |-> c]

\* a lookup that serves a cached record whatever its age
TwilightStart_NoExpiry(c, clock, date, loc) ==
    IF ~ loc.known
    THEN [kind |-> "rejected", data |-> SentinelRecord("", "", FALSE), cache |-> c]
    ELSE IF generateCacheKey(date, loc) \in DOMAIN c
         THEN [kind |-> "resolved", data |-> c[generateCacheKey(date, loc)].data, cache |-> c]
         ELSE [kind |-> "fetch", data |-> SentinelRecord("", "", FALSE), cache |-> c]

\* getTwilightTimes up to its first await.  kind is "rejected" (generateCacheKey
\* threw: lat.toFixed is not a function), "resolved" (a fresh cache entry) or
\* "fetch" (a request is sent; an expired entry has been deleted)
TwilightStart(c, clock, date, loc) ==
    IF ~ loc.known
    THEN [kind |-> "rejected", data |-> SentinelRecord("", "", FALSE), cache |-> c]
    ELSE LET cacheKey == generateCacheKey(date, loc) IN
         IF cacheKey \in DOMAIN c
         THEN IF clock - c[cacheKey].timestamp < maxCacheAge
              THEN [kind |-> "resolved", data |-> c[cacheKey].data, cache |-> c]
              ELSE [kind |-> "fetch", data |-> SentinelRecord("", "", FALSE),
                    cache |-> [k \in (DOMAIN c) \ {cacheKey} |-> c[k]]]
         ELSE [kind |-> "fetch", data |-> SentinelRecord("", "", FALSE), cache |-> c]

\* getTwilightTimes from the answer of its request to its return
TwilightFinish(c, clock, date, loc, outcome) ==
    IF outcome \in Thrown
    THEN [data |-> SentinelRecord("API Error", ErrorMessage(outcome), TRUE), cache |-> c]
    ELSE LET cacheKey == generateCacheKey(date, loc)
             twilightData == processTwilightData(outcome, cacheKey)
         IN [data |-> twilightData,
             cache |-> [k \in (DOMAIN c) \cup {cacheKey} |->
                          IF k = cacheKey
                          THEN [data |-> twilightData, timestamp |-> clock]
                          ELSE c[k]]]

\* ------------------------------------------------------------------------
\* getBatchTwilightTimes.  A call is a record:
\*   state        "waiting" (Promise.all of a batch), "paused" (the 200 ms
\*                timer), "resolved" or "rejected"
\*   dates, loc   its arguments
\*   dateKeys     the key of every input position
\*   unique       the input positions that hold the first date of each key
\*                (uniqueDateMap, in insertion order)
\*   i            the loop index of the batch at work
\*   slots        the lookups of that batch: [st, data], st "pending" or "done"
\*   results      the records of the batches completed
\*   ret          the array the call resolved to
\*   lookups      getTwilightTimes calls made, fetches: requests sent,
\*   pauses       inter-batch timers started, caught: its catch block ran
\*   failed       the keys of the dates whose request was answered with a failure
\* ------------------------------------------------------------------------
NoCall ==
    [state |-> "idle", dates |-> <<>>, loc |-> [known |-> FALSE, lat |-> 0, lng |-> 0],
     dateKeys |-> <<>>, unique |-> <<>>, i |-> 0, slots |-> <<>>, results |-> <<>>,
     ret |-> <<>>, lookups |-> 0, fetches |-> 0, pauses |-> 0, caught |-> FALSE,
     failed |-> {}]

\* no deduplication: every position is looked up
UniquePositions_All(keys) == [k \in 1 .. Len(keys) |-> k]

\* the positions at which a key occurs for the first time, ascending
UniquePositions(keys) ==
    LET F[k \in 0 .. Len(keys)] ==
            IF k = 0 THEN <<>>
            ELSE IF \E j \in 1 .. (k - 1) : keys[j] = keys[k]
                 THEN F[k - 1]
                 ELSE Append(F[k - 1], k)
    IN F[Len(keys)]

Min(a, b) == IF a < b THEN a ELSE b

\* a failure of the loop without the try / catch around it
BatchNoCatch(call) ==
    [call EXCEPT !.state = "rejected", !.slots = <<>>]

\* the catch block: an array of fallback records, one per input date
BatchCatch(call) ==
    [call EXCEPT !.state = "resolved", !.caught = TRUE, !.slots = <<>>,
                 !.ret = [k \in 1 .. Len(call.dates) |->
                            SentinelRecord("N/A", "Batch fetch failed", FALSE)]]

\* the same with the results handed out by position instead of by key
BatchCollected_ByPosition(call) ==
    LET results == call.results \o [j \in 1 .. Len(call.slots) |-> call.slots[j].data]
        n == Len(call.unique)
    IN IF call.i + batchSize < n
       THEN [call EXCEPT !.state = "paused", !.results = results, !.slots = <<>>,
                         !.pauses = @ + 1]
       ELSE [call EXCEPT !.state = "resolved", !.results = results, !.slots = <<>>,
                         !.ret = [k \in 1 .. Len(call.dates) |-> results[Min(k, n)]]]

\* a batch has been awaited: push its results, then pause before the next batch
\* or map the results back to the input positions and return
BatchCollected(call) ==
    LET results == call.results \o [j \in 1 .. Len(call.slots) |-> call.slots[j].data]
        n == Len(call.unique)
    IN IF call.i + batchSize < n
       THEN [call EXCEPT !.state = "paused", !.results = results, !.slots = <<>>,
                         !.pauses = @ + 1]
       ELSE [call EXCEPT !.state = "resolved", !.results = results, !.slots = <<>>,
                         !.ret = [k \in 1 .. Len(call.dates) |->
                                    results[CHOOSE u \in 1 .. n :
                                        call.dateKeys[call.unique[u]] = call.dateKeys[k]]]]

\* one turn of the loop from its head to the await of Promise.all
RECURSIVE StartLookups(_, _, _, _, _)
StartLookups(c, clock, dates, loc, acc) ==
    IF dates = <<>> THEN [slots |-> acc, cache |-> c]
    ELSE LET r == TwilightStart(c, clock, Head(dates), loc)
         IN StartLookups(r.cache, clock, Tail(dates), loc,
                Append(acc, [st |-> IF r.kind = "fetch" THEN "pending" ELSE r.kind,
                             data |-> r.data]))


\* a loop that issues every remaining unique date at once
BatchIssue_AllAtOnce(call, c, clock) ==
    LET n == Len(call.unique)
        batch == [j \in 1 .. (n - call.i) |-> call.dates[call.unique[call.i + j]]]
        started == StartLookups(c, clock, batch, call.loc, <<>>)
        slots == [j \in 1 .. Len(batch) |->
                    [st |-> IF started.slots[j].st = "resolved" THEN "done"
                            ELSE started.slots[j].st,
                     data |-> started.slots[j].data]]
        issued == [call EXCEPT !.state = "waiting", !.slots = slots,
                      !.lookups = @ + Len(batch),
                      !.fetches = @ + Cardinality({j \in 1 .. Len(batch) : slots[j].st = "pending"})]
    IN [cache |-> started.cache,
        call |-> IF \E j \in 1 .. Len(batch) : slots[j].st = "rejected"
                 THEN BatchCatch(issued)
                 ELSE IF \A j \in 1 .. Len(batch) : slots[j].st = "done"
                      THEN BatchCollected(issued)
                      ELSE issued]

BatchIssue(call, c, clock) ==
    LET n == Len(call.unique)
        batch == [j \in 1 .. (Min(call.i + batchSize, n) - call.i) |->
                    call.dates[call.unique[call.i + j]]]
        started == StartLookups(c, clock, batch, call.loc, <<>>)
        slots == [j \in 1 .. Len(batch) |->
                    [st |-> IF started.slots[j].st = "resolved" THEN "done"
                            ELSE started.slots[j].st,
                     data |-> started.slots[j].data]]
        issued == [call EXCEPT !.state = "waiting", !.slots = slots,
                      !.lookups = @ + Len(batch),
                      !.fetches = @ + Cardinality({j \in 1 .. Len(batch) : slots[j].st = "pending"})]
    IN [cache |-> started.cache,
        call |-> IF \E j \in 1 .. Len(batch) : slots[j].st = "rejected"
                 THEN BatchCatch(issued)
                 ELSE IF \A j \in 1 .. Len(batch) : slots[j].st = "done"
                      THEN BatchCollected(issued)
                      ELSE issued]

\* getBatchTwilightTimes(dates, lat, lng) up to its first await
BatchStart(dates, loc, c, clock) ==
    IF Len(dates) = 0
    THEN [cache |-> c, call |-> [NoCall EXCEPT !.state = "resolved", !.loc = loc]]
    ELSE LET dateKeys == [k \in 1 .. Len(dates) |-> formatDateForAPI(dates[k])]
         IN BatchIssue([NoCall EXCEPT !.dates = dates, !.loc = loc, !.dateKeys = dateKeys,
                                      !.unique = UniquePositions(dateKeys)],
                       c, clock)

\* a call in which the failure of one lookup ends the whole call in its catch block
BatchRespond_Escalating(call, j, outcome, c, clock) ==
    LET fin == TwilightFinish(c, clock, call.dates[call.unique[call.i + j]], call.loc, outcome)
        got == [call EXCEPT !.slots[j] = [st |-> "done", data |-> fin.data],
                            !.failed = IF outcome = "ok" THEN @
                                       ELSE @ \cup {call.dateKeys[call.unique[call.i + j]]}]
    IN [cache |-> fin.cache,
        call |-> IF outcome # "ok" THEN BatchCatch(got)
                 ELSE IF \A k \in 1 .. Len(got.slots) : got.slots[k].st = "done"
                 THEN BatchCollected(got)
                 ELSE got]

\* the request of slot j is answered
BatchRespond(call, j, outcome, c, clock) ==
    LET fin == TwilightFinish(c, clock, call.dates[call.unique[call.i + j]], call.loc, outcome)
        got == [call EXCEPT !.slots[j] = [st |-> "done", data |-> fin.data],
                            !.failed = IF outcome = "ok" THEN @
                                       ELSE @ \cup {call.dateKeys[call.unique[call.i + j]]}]
    IN [cache |-> fin.cache,
        call |-> IF \A k \in 1 .. Len(got.slots) : got.slots[k].st = "done"
                 THEN BatchCollected(got)
                 ELSE got]

\* the 200 ms timer between two batches fires
BatchResume(call, c, clock) ==
    BatchIssue([call EXCEPT !.i = @ + batchSize], c, clock)

(***************************************************************************)
(* SolarSymmetryApp                                                         *)
(*                                                                         *)
(* A location is [name, known, lat, lng]; null is the record with the      *)
(* empty name.  A month load is a record:                                   *)
(*   id          its rank among the loads started                           *)
(*   view        "symmetry" (loadSymmetryData) or "cities" (loadCitiesData) *)
(*   data        monthData / citiesData                                     *)
(*   chunkIndex  the chunk at work                                          *)
(*   pc          "fetch" (awaiting the batch fetches of the chunk),         *)
(*               "pause" (the 100 ms timer) or "done" (settled)             *)
(*   calls       the getBatchTwilightTimes calls it started that have not   *)
(*               settled: [chunk, city, call]                               *)
(*   awaited     its caller awaits it and then calls hideLoading            *)
(*   lookups     getTwilightTimes calls made for it so far                  *)
(*   fetches     network requests sent for it so far                        *)
(*   logged      console.error calls of its catch block                     *)
(*   renderLog   its calls of the render sink: the chunk at work, the       *)
(*               records handed over, the records enriched and the lookups  *)
(*               made at that time, whether made by the catch block         *)
(*   issueLog    its chunk fetches: the chunk, and the renders made and     *)
(*               the lookups unresolved when the fetch was started          *)
(* The light-after-work card (updateLightAfterWorkTimer) is a chain of      *)
(* single lookups apart from the month load and is not modelled.            *)
(***************************************************************************)
null == [name |-> "", known |-> FALSE, lat |-> 0, lng |-> 0]

\* lat and lng as handed to the TwilightClient
Coordinates(location) ==
    [known |-> location.known, lat |-> location.lat, lng |-> location.lng]

\* a twilight field that has not been set
NoTwilight == SentinelRecord("", "", FALSE)

EmptyState == [kind |-> "empty", load |-> 0, data |-> <<>>]

\* the columns as the page delivers them
NothingShown ==
    [symmetry |-> [kind |-> "blank", load |-> 0, data |-> <<>>],
     cities |-> [kind |-> "blank", load |-> 0, data |-> <<>>]]


\* a cell that shows 'Loading...' for a record with error set
createDateElement_ErrorAsLoading(twilightData) ==
    IF twilightData # NoTwilight /\ twilightData.error = ""
    THEN [content |-> "times", dawn |-> twilightData.dawn, sunrise |-> twilightData.sunrise,
          sunset |-> twilightData.sunset, dusk |-> twilightData.dusk]
    ELSE [content |-> "Loading...", dawn |-> "", sunrise |-> "", sunset |-> "", dusk |-> ""]

\* the twilight part of the cell createDateElement builds; null is NoTwilight
createDateElement(twilightData) ==
    IF twilightData # NoTwilight /\ twilightData.error = ""
    THEN [content |-> "times", dawn |-> twilightData.dawn, sunrise |-> twilightData.sunrise,
          sunset |-> twilightData.sunset, dusk |-> twilightData.dusk]
    ELSE IF twilightData # NoTwilight /\ twilightData.error # ""
         THEN [content |-> "API Error", dawn |-> "", sunrise |-> "", sunset |-> "", dusk |-> ""]
         ELSE [content |-> "Loading...", dawn |-> "", sunrise |-> "", sunset |-> "", dusk |-> ""]

\* renderCurrentColumn and renderMirroredColumn: the cells of the two columns
renderSymmetryData(monthData) ==
    [k \in DOMAIN monthData |->
        [left |-> createDateElement(monthData[k].currentTwilight),
         right |-> createDateElement(monthData[k].mirroredTwilight)]]

\* renderCity1Column and renderCity2Column
renderCitiesData(citiesData) ==
    [k \in DOMAIN citiesData |->
        [left |-> createDateElement(citiesData[k].city1Twilight),
         right |-> createDateElement(citiesData[k].city2Twilight)]]

formatDateKey(date) == date \div HoursPerDay

\* one chunk size for both views
chunkSize_Ten(view) == 10

chunkSize(view) == IF view = "symmetry" THEN 5 ELSE 10

\* monthData as loadSymmetryData holds it: the twilight fields are set later
SymmetryData(monthData) ==
    [k \in DOMAIN monthData |->
        [current |-> monthData[k].current, mirrored |-> monthData[k].mirrored,
         isToday |-> monthData[k].isToday,
         currentTwilight |-> NoTwilight, mirroredTwilight |-> NoTwilight]]

CitiesData(zone, today, monthDates) ==
    [k \in DOMAIN monthDates |->
        [date |-> monthDates[k], city1Twilight |-> NoTwilight, city2Twilight |-> NoTwilight,
         isToday |-> isToday(zone, today, monthDates[k])]]

NewLoad(id, view, data, awaited) ==
    [id |-> id, view |-> view, data |-> data, chunkIndex |-> 0, pc |-> "fetch",
     calls |-> <<>>, awaited |-> awaited, lookups |-> 0, fetches |-> 0, logged |-> 0,
     renderLog |-> <<>>, issueLog |-> <<>>]

\* the records of the chunk at work: data[ChunkLow] .. data[ChunkHigh]
ChunkLow(load) == load.chunkIndex * chunkSize(load.view) + 1

ChunkHigh(load) == Min((load.chunkIndex + 1) * chunkSize(load.view), Len(load.data))

\* chunkIndex = chunks.length - 1
LastChunk(load) == ChunkHigh(load) = Len(load.data)

\* the records that hold twilight data
Enriched(load) ==
    Cardinality({k \in DOMAIN load.data :
        IF load.view = "symmetry"
        THEN load.data[k].currentTwilight # NoTwilight \/ load.data[k].mirroredTwilight # NoTwilight
        ELSE load.data[k].city1Twilight # NoTwilight \/ load.data[k].city2Twilight # NoTwilight})

\* the calls that have not settled
Live(calls) == SelectSeq(calls, LAMBDA e : e.call.state \notin {"resolved", "rejected"})

\* renderSymmetryData(monthData) / renderCitiesData(citiesData)
Render(load, inCatch) ==
    [load EXCEPT !.renderLog =
        Append(@, [chunk |-> load.chunkIndex, records |-> Len(load.data),
                   enriched |-> Enriched(load), lookups |-> load.lookups,
                   caught |-> inCatch])]

\* a catch block that logs and gives up without rendering
LoadCatch_NoRender(load) ==
    [load EXCEPT !.logged = @ + 1, !.pc = "done", !.calls = Live(@)]

\* the catch block of the load: console.error, render
LoadCatch(load) ==
    [Render([load EXCEPT !.logged = @ + 1], TRUE)
        EXCEPT !.pc = "done", !.calls = Live(@)]

\* the dates of the chunk in the order the forEach meets them: current, mirrored
ChunkDatesInOrder(chunk) ==
    [p \in 1 .. 2 * Len(chunk) |->
        IF p % 2 = 1 THEN chunk[(p + 1) \div 2].current ELSE chunk[p \div 2].mirrored]

KeysOf(dates) == [p \in DOMAIN dates |-> formatDateKey(dates[p])]

\* Array.from(dateMap.values()).map(item => item.date): the first date of every key
FirstOfEachKey(dates, unique) == [u \in DOMAIN unique |-> dates[unique[u]]]

uniqueDateArray(dates) == FirstOfEachKey(dates, UniquePositions(KeysOf(dates)))

\* the dates a chunk fetch asks for
ChunkDates(load) ==
    IF load.view = "symmetry"
    THEN uniqueDateArray(ChunkDatesInOrder(SubSeq(load.data, ChunkLow(load), ChunkHigh(load))))
    ELSE [k \in 1 .. (ChunkHigh(load) - ChunkLow(load) + 1) |->
            load.data[ChunkLow(load) + k - 1].date]

\* twilightResults[resultIndex]: undefined beyond the end of the array
ResultAt(results, index) ==
    IF index \in DOMAIN results THEN results[index] ELSE NoTwilight

\* the record of the result array that belongs to the date: its key's rank in uniqueKeys
ResultOf(results, dates, date) ==
    ResultAt(results, CHOOSE u \in DOMAIN dates : formatDateKey(dates[u]) = formatDateKey(date))

\* the return value of the call of the chunk at work for the city (0: symmetry view)
ResultsOf(load, city) ==
    load.calls[CHOOSE k \in DOMAIN load.calls :
                  load.calls[k].chunk = load.chunkIndex /\ load.calls[k].city = city].call.ret

\* a scatter that takes the results by the rank of the date in the chunk
ScatterSymmetry_ByPosition(load, dates, results) ==
    [load EXCEPT !.data =
        [k \in DOMAIN load.data |->
            IF k < ChunkLow(load) \/ k > ChunkHigh(load) THEN load.data[k]
            ELSE [load.data[k] EXCEPT
                    !.currentTwilight = ResultAt(results, 2 * (k - ChunkLow(load)) + 1),
                    !.mirroredTwilight = ResultAt(results, 2 * (k - ChunkLow(load)) + 2)]]]

ScatterSymmetry(load, dates, results) ==
    [load EXCEPT !.data =
        [k \in DOMAIN load.data |->
            IF k < ChunkLow(load) \/ k > ChunkHigh(load) THEN load.data[k]
            ELSE [load.data[k] EXCEPT
                    !.currentTwilight = ResultOf(results, dates, load.data[k].current),
                    !.mirroredTwilight = ResultOf(results, dates, load.data[k].mirrored)]]]


\* a scatter that stores a city's result only when the other city's lookup succeeded
ScatterCities_FailTogether(load, city1Results, city2Results) ==
    [load EXCEPT !.data =
        [k \in DOMAIN load.data |->
            IF k < ChunkLow(load) \/ k > ChunkHigh(load) THEN load.data[k]
            ELSE [load.data[k] EXCEPT
                    !.city1Twilight =
                        IF ResultAt(city2Results, k - ChunkLow(load) + 1).error # ""
                        THEN ResultAt(city2Results, k - ChunkLow(load) + 1)
                        ELSE ResultAt(city1Results, k - ChunkLow(load) + 1),
                    !.city2Twilight = ResultAt(city2Results, k - ChunkLow(load) + 1)]]]

\* a scatter that writes the results of the chunk over the whole month
ScatterCities_WholeMonth(load, city1Results, city2Results) ==
    [load EXCEPT !.data =
        [k \in DOMAIN load.data |->
            [load.data[k] EXCEPT
                !.city1Twilight = ResultAt(city1Results, k - ChunkLow(load) + 1),
                !.city2Twilight = ResultAt(city2Results, k - ChunkLow(load) + 1)]]]

ScatterCities(load, city1Results, city2Results) ==
    [load EXCEPT !.data =
        [k \in DOMAIN load.data |->
            IF k < ChunkLow(load) \/ k > ChunkHigh(load) THEN load.data[k]
            ELSE [load.data[k] EXCEPT
                    !.city1Twilight = ResultAt(city1Results, k - ChunkLow(load) + 1),
                    !.city2Twilight = ResultAt(city2Results, k - ChunkLow(load) + 1)]]]

\* the results of the chunk written into the dataset
Scatter(load) ==
    IF load.view = "symmetry"
    THEN ScatterSymmetry(load, ChunkDates(load), ResultsOf(load, 0))
    ELSE ScatterCities(load, ResultsOf(load, 1), ResultsOf(load, 2))

\* a loop that starts the 100 ms timer after the last chunk too
ChunkDone_AlwaysPause(load) ==
    [load EXCEPT !.pc = "pause", !.calls = Live(@)]

\* after the render of a chunk: the 100 ms timer, or the end of the loop
ChunkDone(load) ==
    [load EXCEPT !.pc = IF LastChunk(load) THEN "done" ELSE "pause", !.calls = Live(@)]

\* some fetch of the chunk at work rejected
ChunkRejected(load) ==
    \E k \in DOMAIN load.calls :
        load.calls[k].chunk = load.chunkIndex /\ load.calls[k].call.state = "rejected"

\* a chunk taken as fetched as soon as its fetches are started
ChunkFetched_Unawaited(load) == TRUE

\* an await that never ends
ChunkFetched_Never(load) == FALSE


\* a chunk taken as fetched when one of its fetches has resolved
ChunkFetched_Any(load) ==
    \E k \in DOMAIN load.calls :
        load.calls[k].chunk = load.chunkIndex /\ load.calls[k].call.state = "resolved"

\* every fetch of the chunk at work resolved
ChunkFetched(load) ==
    \A k \in DOMAIN load.calls :
        load.calls[k].chunk = load.chunkIndex => load.calls[k].call.state = "resolved"

\* the await of the fetches of the chunk and what follows it
LoadAwait(load) ==
    IF ChunkRejected(load) THEN LoadCatch(load)
    ELSE IF ChunkFetched(load) THEN ChunkDone(Render(Scatter(load), FALSE))
    ELSE [load EXCEPT !.pc = "fetch"]

\* the lookups of the calls that are not resolved
PendingLookups(calls) ==
    Cardinality({kj \in UNION {{<<k, j>> : j \in DOMAIN calls[k].call.slots} :
                                k \in DOMAIN calls} :
                    calls[kj[1]].call.slots[kj[2]].st = "pending"})

\* the fetch of a chunk is about to start
Issuing(load) ==
    [load EXCEPT !.issueLog =
        Append(@, [chunk |-> load.chunkIndex, renders |-> Len(load.renderLog),
                   unsettled |-> PendingLookups(load.calls)])]

\* a getBatchTwilightTimes call has been made for the chunk
Started(load, city, call) ==
    [load EXCEPT !.calls = Append(@, [chunk |-> load.chunkIndex, city |-> city, call |-> call]),
                 !.lookups = @ + call.lookups,
                 !.fetches = @ + call.fetches]

AwaitSymmetry(load, r) ==
    [cache |-> r.cache, load |-> LoadAwait(Started(Issuing(load), 0, r.call))]

\* loadSymmetryData from the head of the chunk loop to its next await
FetchSymmetryChunk(a, load) ==
    IF a.currentLocation = null
    THEN [cache |-> a.cache, load |-> LoadCatch(load)]
    ELSE AwaitSymmetry(load,
            BatchStart(ChunkDates(load), Coordinates(a.currentLocation), a.cache, a.now))

AwaitCities(load, r1, r2) ==
    [cache |-> r2.cache,
     load |-> LoadAwait(Started(Started(Issuing(load), 1, r1.call), 2, r2.call))]

\* the second argument of Promise.all, the first call being made
FetchSecondCity(a, load, r1) ==
    IF a.city2 = null
    THEN [cache |-> r1.cache, load |-> LoadCatch(Started(Issuing(load), 1, r1.call))]
    ELSE AwaitCities(load, r1,
            BatchStart(ChunkDates(load), Coordinates(a.city2), r1.cache, a.now))

\* loadCitiesData from the head of the chunk loop to its next await
FetchCitiesChunk(a, load) ==
    IF a.city1 = null
    THEN [cache |-> a.cache, load |-> LoadCatch(load)]
    ELSE FetchSecondCity(a, load,
            BatchStart(ChunkDates(load), Coordinates(a.city1), a.cache, a.now))

FetchChunk(a, load) ==
    IF load.view = "symmetry"
    THEN FetchSymmetryChunk(a, load)
    ELSE FetchCitiesChunk(a, load)

\* a load that starts its first fetch before it renders the unenriched dataset
BeginLoad_FetchFirst(a, load) ==
    [cache |-> FetchChunk(a, load).cache,
     load |-> Render(FetchChunk(a, load).load, FALSE)]

\* a load from its start to its first await: the unenriched render, then chunk 0
BeginLoad(a, load) == FetchChunk(a, Render(load, FALSE))

\* ------------------------------------------------------------------------
\* The application as a record a of its fields, the cache of its
\* TwilightClient, the zone and the clock; a handler maps a to its successor.
\* ------------------------------------------------------------------------
showLoading(a) == [a EXCEPT !.isLoading = TRUE]

hideLoading(a) == [a EXCEPT !.isLoading = FALSE]

renderSymmetryEmptyState(a) == [a EXCEPT !.shown.symmetry = EmptyState]

renderCitiesEmptyState(a) == [a EXCEPT !.shown.cities = EmptyState]

\* the load has run from the state before to r.load: its record is stored, the
\* columns of its view show the dataset of its last render, and the caller that
\* awaits it goes on to hideLoading when it has settled
Progress(a, before, r) ==
    [a EXCEPT !.cache = r.cache,
              !.loads = IF before.id > Len(a.loads)
                        THEN Append(a.loads, r.load)
                        ELSE [a.loads EXCEPT ![before.id] = r.load],
              !.shown = IF Len(r.load.renderLog) > Len(before.renderLog)
                        THEN [@ EXCEPT ![before.view] =
                                [kind |-> "data", load |-> before.id, data |-> r.load.data]]
                        ELSE @,
              !.isLoading = IF r.load.pc = "done" /\ before.pc # "done" /\ before.awaited
                            THEN FALSE ELSE @]

StartLoad(a, load) == Progress(a, load, BeginLoad(a, load))

\* a load that returns at once: its caller goes on
NoLoad(a, awaited) == IF awaited THEN hideLoading(a) ELSE a

\* the zones and the times of start-up of the application: noon of April 15 of
\* the first year
AppZones == {"NewYork"}

StartTimes(zone) == {MakeLocal(zone, FirstYear, 3, 15, 12)}

\* the zones and the times of start-up of a single month load: one zone west and
\* one east of Greenwich, noon of the 15th of every month of the first year
MonthZones == {"NewYork", "Sydney"}

MonthStartTimes(zone) == {MakeLocal(zone, FirstYear, m0, 15, 12) : m0 \in 0 .. 11}

TableZones == AppZones \cup MonthZones

TableTimes(zone) == StartTimes(zone) \cup MonthStartTimes(zone)

\* the datasets of the months of the year of start-up (navigation does not leave
\* it), tabulated: monthData of loadSymmetryData and citiesData of loadCitiesData
SymmetryTable ==
    [zone \in TableZones |-> [today \in TableTimes(zone) |-> [month \in 1 .. 12 |->
        SymmetryData(getMonthWithMirrors(zone, today, getFullYear(zone, today), month))]]]

CitiesTable ==
    [zone \in TableZones |-> [today \in TableTimes(zone) |-> [month \in 1 .. 12 |->
        CitiesData(zone, today, getMonthDates(zone, getFullYear(zone, today), month))]]]

loadSymmetryData(a, awaited) ==
    IF a.currentLocation = null THEN NoLoad(a, awaited)
    ELSE StartLoad(a, NewLoad(Len(a.loads) + 1, "symmetry",
            SymmetryTable[a.tz][a.now][getMonth(a.tz, a.currentMonth) + 1], awaited))

loadCitiesData(a, awaited) ==
    IF a.city1 = null \/ a.city2 = null THEN NoLoad(a, awaited)
    ELSE StartLoad(a, NewLoad(Len(a.loads) + 1, "cities",
            CitiesTable[a.tz][a.now][getMonth(a.tz, a.currentMonth) + 1], awaited))

loadMonthData(a, awaited) ==
    IF a.currentView = "symmetry" THEN loadSymmetryData(a, awaited)
    ELSE loadCitiesData(a, awaited)

Viewed(a) ==
    CASE a.currentView = "symmetry" ->
            IF a.currentLocation # null THEN loadMonthData(a, FALSE)
            ELSE renderSymmetryEmptyState(a)
      [] a.currentView = "cities" ->
            IF a.city1 # null /\ a.city2 # null THEN loadMonthData(a, FALSE)
            ELSE renderCitiesEmptyState(a)
      [] OTHER -> a

switchToView(a, view) == Viewed([a EXCEPT !.currentView = view])

\* saved: the locations kept in localStorage (null where there is none)
SavedCities(a, saved) ==
    [a EXCEPT !.city1 = IF saved.city1 # null THEN saved.city1 ELSE @,
              !.city2 = IF saved.city2 # null THEN saved.city2 ELSE @]

loadSavedLocations(a, saved) ==
    SavedCities(IF saved.location # null
                THEN loadMonthData([a EXCEPT !.currentLocation = saved.location], FALSE)
                ELSE a,
                saved)

initializeApp(a, saved) == switchToView(loadSavedLocations(a, saved), "symmetry")

\* the fields the constructor sets
Constructed(zone, clock) ==
    [tz |-> zone, now |-> clock, cache |-> <<>>, currentMonth |-> clock,
     currentLocation |-> null, currentView |-> "symmetry", city1 |-> null, city2 |-> null,
     isLoading |-> FALSE, shown |-> NothingShown, loads |-> <<>>]

selectLocation(a, location) ==
    loadMonthData(showLoading([a EXCEPT !.currentLocation = location]), TRUE)

Chosen(a) ==
    IF a.city1 # null /\ a.city2 # null THEN loadMonthData(showLoading(a), TRUE) ELSE a

selectCity(a, location, cityNumber) ==
    Chosen(IF cityNumber = 1 THEN [a EXCEPT !.city1 = location]
                             ELSE [a EXCEPT !.city2 = location])

navigateToPreviousMonth(a) ==
    IF ~ canGoToPreviousMonth(a.tz, a.currentMonth) THEN a
    ELSE loadMonthData(
            showLoading([a EXCEPT !.currentMonth = getPreviousMonth(a.tz, @)]), TRUE)

navigateToNextMonth(a) ==
    IF ~ canGoToNextMonth(a.tz, a.currentMonth) THEN a
    ELSE loadMonthData(
            showLoading([a EXCEPT !.currentMonth = getNextMonth(a.tz, @)]), TRUE)

clearLocationInput(a) == renderSymmetryEmptyState([a EXCEPT !.currentLocation = null])

Cleared(a) == IF a.currentView = "cities" THEN renderCitiesEmptyState(a) ELSE a

clearCityInput(a, cityNumber) ==
    Cleared(IF cityNumber = 1 THEN [a EXCEPT !.city1 = null] ELSE [a EXCEPT !.city2 = null])

\* ------------------------------------------------------------------------
\* What happens to a load in flight: l is its rank in loads, k the rank of
\* one of its calls in load.calls.
\* ------------------------------------------------------------------------
\* the call k of the load has moved on to r.call
CallMoved(load, k, r) ==
    [load EXCEPT !.calls[k].call = r.call,
                 !.lookups = @ + r.call.lookups - load.calls[k].call.lookups,
                 !.fetches = @ + r.call.fetches - load.calls[k].call.fetches]

\* the load goes on when the call it awaits has settled
Resumed(load, k) ==
    IF load.pc = "fetch" /\ load.calls[k].chunk = load.chunkIndex
    THEN LoadAwait(load)
    ELSE [load EXCEPT !.calls = Live(@)]

AfterCall(a, load, k, r) ==
    Progress(a, load,
        [cache |-> r.cache, load |-> Resumed(CallMoved(load, k, r), k)])

\* what the service answers to a request for the place
Answers(coordinates) == IF coordinates.lat > 6000000 THEN {"failed"} ELSE {"ok"}

\* the request of slot j of the call is answered
LookupAnswered(a, l, k, j, outcome) ==
    AfterCall(a, a.loads[l], k,
        BatchRespond(a.loads[l].calls[k].call, j, outcome, a.cache, a.now))

\* the 200 ms timer of the call fires
BatchTimerFired(a, l, k) ==
    AfterCall(a, a.loads[l], k, BatchResume(a.loads[l].calls[k].call, a.cache, a.now))

\* the 100 ms timer of the load fires: chunkIndex++ and the next turn of the loop
ChunkTimerFired(a, l) ==
    Progress(a, a.loads[l],
        FetchChunk(a, [a.loads[l] EXCEPT !.chunkIndex = @ + 1]))

(***************************************************************************)
(* SpecDates: the methods of DateCalculations applied to every calendar     *)
(* date of the years FirstYear .. FirstYear + NumYears - 1, the Date being  *)
(* built at local midnight as getMonthWithMirrors builds it.                *)
(***************************************************************************)
Years == FirstYear .. (FirstYear + NumYears - 1)

CalendarDays == DaysFromCivil(FirstYear, 1, 1) .. (DaysFromCivil(FirstYear + NumYears, 1, 1) - 1)

\* the Date of the calendar day z in the zone: new Date(y, m - 1, d)
DateOfDay(zone, z) ==
    LET c == CivilFromDays(z) IN NewDate(zone, c.y, c.m - 1, c.d)

NoValue == "none"

\* no getTwilightTimes call under check
NoLookup ==
    [state |-> "idle", date |-> 0, loc |-> NoCall.loc, ret |-> SentinelRecord("", "", FALSE),
     sent |-> 0, found |-> <<>>, at |-> 0, calls |-> 0, hits |-> 0]

BatchIdle ==
    /\ bdates = <<>>
    /\ bloc = NoCall.loc
    /\ bcall = NoCall
    /\ bcalls = 0
    /\ lookup = NoLookup

\* the search input is empty and nothing is pending; the fields of PullToRefresh
\* are as its constructor sets them and no finger touches the screen
NoSearch ==
    [query |-> <<>>, timer |-> <<>>, flights |-> {}, known |-> {},
     hidden |-> TRUE, results |-> <<>>, typed |-> 0]

NoPull ==
    [startY |-> 0, currentY |-> 0, isDragging |-> FALSE, touching |-> FALSE,
     scrollY |-> 0, atTop |-> FALSE, moves |-> 0, down |-> 0, gestures |-> 0,
     refreshed |-> FALSE]

UiIdle ==
    /\ search = NoSearch
    /\ pull = NoPull

DatesIdle ==
    /\ dpc = "idle"
    /\ darg = 0
    /\ dret = NoValue

\* the application is not running
AppIdle ==
    /\ currentMonth = 0
    /\ currentLocation = null
    /\ currentView = "symmetry"
    /\ city1 = null
    /\ city2 = null
    /\ isLoading = FALSE
    /\ shown = NothingShown
    /\ loads = <<>>
    /\ events = 0
    /\ overlap = 0

\* the clock at the calls, in hours after the local midnight of the argument:
\* the same calendar day at three times of the day, and a day five weeks later
ClockOffsets == {0, 13, 23, 35 * HoursPerDay + 5}

InitDates ==
    /\ tz \in Zones
    /\ cache = <<>>
    /\ darg \in {DateOfDay(tz, z) : z \in CalendarDays}
    /\ now \in {darg + h : h \in ClockOffsets}
    /\ dpc = "ready"
    /\ dret = NoValue
    /\ UiIdle
    /\ BatchIdle
    /\ AppIdle

CallGetNearestSolstice ==
    /\ dpc = "ready"
    /\ dpc' = "getNearestSolstice"
    /\ dret' = getNearestSolstice(tz, darg)
    /\ UNCHANGED <<envVars, cache, darg, uiVars, batchVars, appVars>>

CallCalculateMirrorDate ==
    /\ dpc = "ready"
    /\ dpc' = "calculateMirrorDate"
    /\ dret' = calculateMirrorDate(tz, darg)
    /\ UNCHANGED <<envVars, cache, darg, uiVars, batchVars, appVars>>

\* calculateMirrorDate is called with the date it has just returned
CallCalculateMirrorDateAgain ==
    /\ dpc = "calculateMirrorDate"
    /\ dpc' = "mirrorOfMirror"
    /\ dret' = calculateMirrorDate(tz, dret)
    /\ UNCHANGED <<envVars, cache, darg, uiVars, batchVars, appVars>>

\* getMonthDates(year, month) is called for the month of the date
CallGetMonthDates ==
    /\ dpc = "ready"
    /\ dpc' = "getMonthDates"
    /\ dret' = getMonthDates(tz, getFullYear(tz, darg), getMonth(tz, darg) + 1)
    /\ UNCHANGED <<envVars, cache, darg, uiVars, batchVars, appVars>>

\* getMonthWithMirrors(year, month) is called for the month of the date; isToday
\* reads the clock
CallGetMonthWithMirrors ==
    /\ dpc = "ready"
    /\ dpc' = "getMonthWithMirrors"
    /\ dret' = getMonthWithMirrors(tz, now, getFullYear(tz, darg), getMonth(tz, darg) + 1)
    /\ UNCHANGED <<envVars, cache, darg, uiVars, batchVars, appVars>>

\* the month numbers outside 1 .. 12 that name the month of the date in the
\* year before and in the year after (0 for December, 13 for January)
MonthsOutside(date) == {getMonth(tz, date) + 1 - 12, getMonth(tz, date) + 1 + 12}

\* the outcome of a call that has returned: neither method has a throw statement
Returned(month, value) == [month |-> month, thrown |-> FALSE, value |-> value]

\* getMonthDates(year, month) is called with a month outside 1 .. 12
CallGetMonthDatesOutside ==
    /\ dpc = "ready"
    /\ getDate(tz, darg) = 1
    /\ dpc' = "getMonthDatesOutside"
    /\ \E month \in MonthsOutside(darg) :
          dret' = Returned(month, getMonthDates(tz, getFullYear(tz, darg), month))
    /\ UNCHANGED <<envVars, cache, darg, uiVars, batchVars, appVars>>

\* getMonthWithMirrors(year, month) is called with a month outside 1 .. 12
CallGetMonthWithMirrorsOutside ==
    /\ dpc = "ready"
    /\ getDate(tz, darg) = 1
    /\ dpc' = "getMonthWithMirrorsOutside"
    /\ \E month \in MonthsOutside(darg) :
          dret' = Returned(month, getMonthWithMirrors(tz, now, getFullYear(tz, darg), month))
    /\ UNCHANGED <<envVars, cache, darg, uiVars, batchVars, appVars>>

NextDates ==
    \/ CallGetNearestSolstice
    \/ CallCalculateMirrorDate
    \/ CallCalculateMirrorDateAgain
    \/ CallGetMonthDates
    \/ CallGetMonthWithMirrors
    \/ CallGetMonthDatesOutside
    \/ CallGetMonthWithMirrorsOutside

SpecDates == InitDates /\ [][NextDates]_vars

(***************************************************************************)
(* SpecBatch: getBatchTwilightTimes called, up to MaxCalls times in a row,  *)
(* with every sequence of at most MaxDates dates drawn from three calendar  *)
(* days, for a location with or without numeric coordinates; every request  *)
(* is answered with any of BatchOutcomes.                                   *)
(***************************************************************************)
BatchDays == { DaysFromCivil(FirstYear, 6, 20), DaysFromCivil(FirstYear, 6, 21),
               DaysFromCivil(FirstYear, 12, 31) }

SeqsUpTo(S, n) == UNION { [1 .. k -> S] : k \in 0 .. n }

Montreal == [known |-> TRUE, lat |-> 4550000, lng |-> -7360000]
\* a saved location whose lat and lng are not numbers
NoCoordinates == [known |-> FALSE, lat |-> 0, lng |-> 0]

\* one zone west and one east of Greenwich
BatchZones == {"NewYork", "Sydney"}

\* what a request is answered with: the times, a failed request, an HTTP
\* error, the rate limit (429), a payload that cannot be processed
BatchOutcomes == Outcomes \cup {"http", "429"}

InitBatch ==
    /\ tz \in BatchZones
    /\ now = 0
    /\ cache = <<>>
    /\ DatesIdle
    /\ UiIdle
    /\ bdates \in SeqsUpTo({DateOfDay(tz, z) : z \in BatchDays}, MaxDates)
    /\ bloc \in {Montreal, NoCoordinates}
    /\ bcall = NoCall
    /\ bcalls = 0
    /\ lookup = NoLookup
    /\ AppIdle

CallBatch ==
    /\ bcall.state \in {"idle", "resolved", "rejected"}
    /\ bcalls < MaxCalls
    /\ LET r == BatchStart(bdates, bloc, cache, now)
       IN /\ bcall' = r.call
          /\ cache' = r.cache
    /\ bcalls' = bcalls + 1
    /\ UNCHANGED <<envVars, dateVars, uiVars, bdates, bloc, lookup, appVars>>

RespondBatch ==
    /\ bcall.state = "waiting"
    /\ \E j \in 1 .. Len(bcall.slots), outcome \in BatchOutcomes :
          /\ bcall.slots[j].st = "pending"
          /\ LET r == BatchRespond(bcall, j, outcome, cache, now)
             IN /\ bcall' = r.call
                /\ cache' = r.cache
    /\ UNCHANGED <<envVars, dateVars, uiVars, bdates, bloc, bcalls, lookup, appVars>>

ResumeBatch ==
    /\ bcall.state = "paused"
    /\ LET r == BatchResume(bcall, cache, now)
       IN /\ bcall' = r.call
          /\ cache' = r.cache
    /\ UNCHANGED <<envVars, dateVars, uiVars, bdates, bloc, bcalls, lookup, appVars>>

NextBatch ==
    \/ CallBatch
    \/ RespondBatch
    \/ ResumeBatch

SpecBatch == InitBatch /\ [][NextBatch]_vars


(***************************************************************************)
(* SpecLookup: getTwilightTimes called, up to MaxLookups times one after    *)
(* the other, for one of two dates and for two places whose coordinates     *)
(* round to the same four decimals or a location without numeric            *)
(* coordinates; the request is answered with any of LookupOutcomes, and the *)
(* clock advances by half the cache age at a time up to MaxClock.           *)
(***************************************************************************)
LookupDays == { DaysFromCivil(FirstYear, 6, 20), DaysFromCivil(FirstYear, 6, 21) }

MontrealNearby == [known |-> TRUE, lat |-> 4550004, lng |-> -7359996]

LookupOutcomes == Outcomes \cup Thrown

\* the cache entry getTwilightTimes meets for the date and the location
Found(c, date, loc) ==
    IF loc.known /\ generateCacheKey(date, loc) \in DOMAIN c
    THEN <<c[generateCacheKey(date, loc)]>>
    ELSE <<>>

InitLookup ==
    /\ tz \in BatchZones
    /\ now = 0
    /\ cache = <<>>
    /\ DatesIdle
    /\ UiIdle
    /\ BatchIdle
    /\ AppIdle

\* getTwilightTimes(date, lat, lng) is called and runs to its await or its return
Called(call, date, loc, r, found, clock) ==
    [state |-> IF r.kind = "fetch" THEN "pending" ELSE r.kind,
     date |-> date, loc |-> loc, ret |-> r.data,
     sent |-> IF r.kind = "fetch" THEN 1 ELSE 0,
     found |-> found, at |-> clock, calls |-> call.calls + 1,
     hits |-> call.hits + (IF r.kind = "resolved" THEN 1 ELSE 0)]

CallLookup ==
    /\ lookup.state # "pending"
    /\ lookup.calls < MaxLookups
    /\ \E date \in {DateOfDay(tz, z) : z \in LookupDays},
          loc \in {Montreal, MontrealNearby, NoCoordinates} :
          \E r \in {TwilightStart(cache, now, date, loc)} :
              /\ lookup' = Called(lookup, date, loc, r, Found(cache, date, loc), now)
              /\ cache' = r.cache
    /\ UNCHANGED <<envVars, dateVars, uiVars, bdates, bloc, bcall, bcalls, appVars>>

\* the request is answered and getTwilightTimes returns
RespondLookup ==
    /\ lookup.state = "pending"
    /\ \E outcome \in LookupOutcomes :
          \E fin \in {TwilightFinish(cache, now, lookup.date, lookup.loc, outcome)} :
              /\ lookup' = [lookup EXCEPT !.state = "resolved", !.ret = fin.data]
              /\ cache' = fin.cache
    /\ UNCHANGED <<envVars, dateVars, uiVars, bdates, bloc, bcall, bcalls, appVars>>

ClockAdvances ==
    /\ now + maxCacheAge \div 2 <= MaxClock
    /\ now' = now + maxCacheAge \div 2
    /\ UNCHANGED <<tz, cache, dateVars, uiVars, batchVars, appVars>>

NextLookup ==
    \/ CallLookup
    \/ RespondLookup
    \/ ClockAdvances

SpecLookup == InitLookup /\ [][NextLookup]_vars

(***************************************************************************)
(* Spec: the application from its construction on.  The user navigates,     *)
(* selects and clears locations and switches views, at most MaxEvents       *)
(* times and while at most MaxLoads loads are started; at most MaxOverlap   *)
(* steps are taken while several loads are in flight.  Timers fire and      *)
(* requests are answered in any order, but for the requests of one          *)
(* getBatchTwilightTimes call, which are answered in the order they were    *)
(* sent (SpecBatch answers them in any order).                              *)
(***************************************************************************)
Tromso == [known |-> TRUE, lat |-> 6965000, lng |-> 1896000]

Named(name, coordinates) ==
    [name |-> name, known |-> coordinates.known,
     lat |-> coordinates.lat, lng |-> coordinates.lng]

\* the places the location search offers
Places == {Named("Montreal", Montreal)}

SavedNothing == [location |-> null, city1 |-> null, city2 |-> null]

\* what localStorage may hold at start-up
SavedStates ==
    { SavedNothing,
      [location |-> null,
       city1 |-> Named("Montreal", Montreal), city2 |-> Named("Tromso", Tromso)],
      [location |-> Named("Home", NoCoordinates), city1 |-> null, city2 |-> null] }

\* the application at the current state
App ==
    [tz |-> tz, now |-> now, cache |-> cache, currentMonth |-> currentMonth,
     currentLocation |-> currentLocation, currentView |-> currentView,
     city1 |-> city1, city2 |-> city2, isLoading |-> isLoading, shown |-> shown,
     loads |-> loads]

Starts(a) ==
    /\ cache = a.cache
    /\ currentMonth = a.currentMonth
    /\ currentLocation = a.currentLocation
    /\ currentView = a.currentView
    /\ city1 = a.city1
    /\ city2 = a.city2
    /\ isLoading = a.isLoading
    /\ shown = a.shown
    /\ loads = a.loads

Becomes(a) ==
    /\ cache' = a.cache
    /\ currentMonth' = a.currentMonth
    /\ currentLocation' = a.currentLocation
    /\ currentView' = a.currentView
    /\ city1' = a.city1
    /\ city2' = a.city2
    /\ isLoading' = a.isLoading
    /\ shown' = a.shown
    /\ loads' = a.loads

Init ==
    /\ tz \in AppZones
    /\ now \in StartTimes(tz)
    /\ DatesIdle
    /\ UiIdle
    /\ BatchIdle
    /\ events = 0
    /\ overlap = 0
    /\ \E saved \in SavedStates : Starts(initializeApp(Constructed(tz, now), saved))

\* the load has not settled, or calls it started are still at work
InFlight(load) == load.pc # "done" \/ load.calls # <<>>

\* at most MaxLoads loads are started
WithinBounds(a) == Len(a.loads) <= MaxLoads

\* several loads are in flight
Overlapping == Cardinality({l \in DOMAIN loads : InFlight(loads[l])}) > 1

\* a user event whose handler leads to one of the states in after
UserEvent(after) ==
    /\ events < MaxEvents
    /\ \E a \in after :
          /\ WithinBounds(a)
          /\ Becomes(a)
    /\ events' = events + 1
    /\ UNCHANGED <<envVars, dateVars, uiVars, batchVars, overlap>>

NavigateToPreviousMonth ==
    /\ canGoToPreviousMonth(tz, currentMonth)
    /\ UserEvent({navigateToPreviousMonth(App)})

NavigateToNextMonth ==
    /\ canGoToNextMonth(tz, currentMonth)
    /\ UserEvent({navigateToNextMonth(App)})

SelectLocation ==
    /\ currentView = "symmetry"
    /\ UserEvent({selectLocation(App, location) : location \in Places})

ClearLocationInput ==
    /\ currentView = "symmetry"
    /\ UserEvent({clearLocationInput(App)})

SwitchToView ==
    UserEvent({switchToView(App, view) : view \in {"symmetry", "cities", "mobileApp"}})

SelectCity ==
    /\ currentView = "cities"
    /\ UserEvent({selectCity(App, location, cityNumber) :
                    location \in Places, cityNumber \in {1, 2}})

ClearCityInput ==
    /\ currentView = "cities"
    /\ UserEvent({clearCityInput(App, cityNumber) : cityNumber \in {1, 2}})

\* a step of a load in flight that leads to the state after; at most MaxOverlap
\* such steps are taken while several loads are in flight
Internal(after) ==
    /\ Overlapping => overlap < MaxOverlap
    /\ \E a \in {after} : Becomes(a)
    /\ overlap' = IF Overlapping THEN overlap + 1 ELSE overlap
    /\ UNCHANGED <<envVars, dateVars, uiVars, batchVars, events>>

AnswerLookup ==
    \E l \in DOMAIN loads :
    \E k \in DOMAIN loads[l].calls :
    \E j \in DOMAIN loads[l].calls[k].call.slots :
        /\ loads[l].calls[k].call.slots[j].st = "pending"
        /\ \A i \in 1 .. (j - 1) : loads[l].calls[k].call.slots[i].st # "pending"
        /\ \E outcome \in Answers(loads[l].calls[k].call.loc) :
              Internal(LookupAnswered(App, l, k, j, outcome))

BatchTimer ==
    \E l \in DOMAIN loads :
    \E k \in DOMAIN loads[l].calls :
        /\ loads[l].calls[k].call.state = "paused"
        /\ Internal(BatchTimerFired(App, l, k))

ChunkTimer ==
    \E l \in DOMAIN loads :
        /\ loads[l].pc = "pause"
        /\ Internal(ChunkTimerFired(App, l))

Next ==
    \/ NavigateToPreviousMonth
    \/ NavigateToNextMonth
    \/ SelectLocation
    \/ ClearLocationInput
    \/ SwitchToView
    \/ SelectCity
    \/ ClearCityInput
    \/ AnswerLookup
    \/ BatchTimer
    \/ ChunkTimer

Spec == Init /\ [][Next]_vars

(***************************************************************************)
(* SpecMonth: the application constructed in any month of the first year    *)
(* with nothing saved; the user selects a location once, and the one month  *)
(* load of the symmetry view runs to its end, every request being answered  *)
(* with the times.                                                          *)
(***************************************************************************)
InitMonth ==
    /\ tz \in MonthZones
    /\ now \in MonthStartTimes(tz)
    /\ DatesIdle
    /\ UiIdle
    /\ BatchIdle
    /\ events = 0
    /\ overlap = 0
    /\ Starts(initializeApp(Constructed(tz, now), SavedNothing))

SelectLocationOnce ==
    /\ loads = <<>>
    /\ SelectLocation

NextMonth ==
    \/ SelectLocationOnce
    \/ AnswerLookup
    \/ BatchTimer
    \/ ChunkTimer

SpecMonth == InitMonth /\ [][NextMonth]_vars

(***************************************************************************)
(* SpecSettle: the application of Spec with every request answered in the   *)
(* end and every timer firing in the end: the steps of the loads in flight  *)
(* are taken in any order and in any number, and weak fairness holds for    *)
(* each of them.  The user acts at most SettleEvents times, at any moment   *)
(* of a load in flight, and starts at most one load (start-up with a saved  *)
(* location starts two).                                                    *)
(***************************************************************************)
SettleEvents == 2

InitSettle ==
    /\ tz \in AppZones
    /\ now \in StartTimes(tz)
    /\ DatesIdle
    /\ UiIdle
    /\ BatchIdle
    /\ events = 0
    /\ overlap = 0
    /\ \E saved \in SavedStates :
          Starts(initializeApp(Constructed(tz, now), saved))

\* the user acts
UserActs ==
    /\ events < SettleEvents
    /\ \/ NavigateToPreviousMonth
       \/ NavigateToNextMonth
       \/ SelectLocation
       \/ ClearLocationInput
       \/ SwitchToView
    /\ Len(loads') \in {Len(loads), 1}

\* a step of a load in flight that leads to the state after
Proceeds(after) ==
    /\ \E a \in {after} : Becomes(a)
    /\ UNCHANGED <<envVars, dateVars, uiVars, batchVars, events, overlap>>

RequestCompletes ==
    \E l \in DOMAIN loads :
    \E k \in DOMAIN loads[l].calls :
    \E j \in DOMAIN loads[l].calls[k].call.slots :
        /\ loads[l].calls[k].call.slots[j].st = "pending"
        /\ \A i \in 1 .. (j - 1) : loads[l].calls[k].call.slots[i].st # "pending"
        /\ \E outcome \in Answers(loads[l].calls[k].call.loc) :
              Proceeds(LookupAnswered(App, l, k, j, outcome))

BatchTimerEnds ==
    \E l \in DOMAIN loads :
    \E k \in DOMAIN loads[l].calls :
        /\ loads[l].calls[k].call.state = "paused"
        /\ Proceeds(BatchTimerFired(App, l, k))

ChunkTimerEnds ==
    \E l \in DOMAIN loads :
        /\ loads[l].pc = "pause"
        /\ Proceeds(ChunkTimerFired(App, l))

NextSettle ==
    \/ UserActs
    \/ RequestCompletes
    \/ BatchTimerEnds
    \/ ChunkTimerEnds

\* a request is outstanding, a 200 ms timer is running, a 100 ms timer is running
RequestOutstanding ==
    \E l \in DOMAIN loads : \E k \in DOMAIN loads[l].calls :
    \E j \in DOMAIN loads[l].calls[k].call.slots :
        loads[l].calls[k].call.slots[j].st = "pending"

BatchTimerRunning ==
    \E l \in DOMAIN loads : \E k \in DOMAIN loads[l].calls :
        loads[l].calls[k].call.state = "paused"

ChunkTimerRunning == \E l \in DOMAIN loads : loads[l].pc = "pause"

\* weak fairness of each step; the step is enabled exactly when its request or
\* timer exists
SpecSettle ==
    /\ InitSettle
    /\ [][NextSettle]_vars
    /\ ([]<>(~ RequestOutstanding) \/ []<><<RequestCompletes>>_vars)
    /\ ([]<>(~ BatchTimerRunning) \/ []<><<BatchTimerEnds>>_vars)
    /\ ([]<>(~ ChunkTimerRunning) \/ []<><<ChunkTimerEnds>>_vars)

(***************************************************************************)
(* SpecPlaces: the application constructed with nothing saved in the        *)
(* symmetry view; the user selects one of two places, at most MaxEvents     *)
(* times and at any moment of a load in flight.  The requests and the       *)
(* timers of the oldest load in flight are served first.                    *)
(***************************************************************************)
Quebec == [known |-> TRUE, lat |-> 4681000, lng |-> -7121000]

TwoPlaces == {Named("Montreal", Montreal), Named("Quebec", Quebec)}

InitPlaces ==
    /\ tz \in AppZones
    /\ now \in StartTimes(tz)
    /\ DatesIdle
    /\ UiIdle
    /\ BatchIdle
    /\ events = 0
    /\ overlap = 0
    /\ Starts(initializeApp(Constructed(tz, now), SavedNothing))

SelectPlace ==
    /\ currentView = "symmetry"
    /\ UserEvent({selectLocation(App, location) : location \in TwoPlaces})

\* the oldest load in flight
Oldest ==
    {l \in DOMAIN loads : InFlight(loads[l]) /\ \A m \in 1 .. (l - 1) : ~ InFlight(loads[m])}

OldestAnswered ==
    \E l \in Oldest :
    \E k \in DOMAIN loads[l].calls :
    \E j \in DOMAIN loads[l].calls[k].call.slots :
        /\ loads[l].calls[k].call.slots[j].st = "pending"
        /\ \A i \in 1 .. (j - 1) : loads[l].calls[k].call.slots[i].st # "pending"
        /\ \E outcome \in Answers(loads[l].calls[k].call.loc) :
              Proceeds(LookupAnswered(App, l, k, j, outcome))

OldestBatchTimer ==
    \E l \in Oldest :
    \E k \in DOMAIN loads[l].calls :
        /\ loads[l].calls[k].call.state = "paused"
        /\ Proceeds(BatchTimerFired(App, l, k))

OldestChunkTimer ==
    \E l \in Oldest :
        /\ loads[l].pc = "pause"
        /\ Proceeds(ChunkTimerFired(App, l))

NextPlaces ==
    \/ SelectPlace
    \/ OldestAnswered
    \/ OldestBatchTimer
    \/ OldestChunkTimer

SpecPlaces == InitPlaces /\ [][NextPlaces]_vars

(***************************************************************************)
(* SpecSearch: the location input of the symmetry view and the              *)
(* GeocodingClient behind it.  The user changes the text of the input at    *)
(* most MaxTyped times; the 300 ms debounce timer fires and the requests    *)
(* are answered, with results or with a failure, at any moment and in any   *)
(* order.  A text is a sequence of characters.  The variable search holds:  *)
(*   query    the text of the input                                         *)
(*   timer    debounceTimer: the search it will start, if it is pending     *)
(*   flights  the searchLocations calls awaiting their request              *)
(*   known    the keys of GeocodingClient.cache                             *)
(*   hidden   the dropdown has the class hidden                             *)
(*   results  what the dropdown was last filled with: the text searched     *)
(*            for, and whether locations were found                         *)
(*   typed    input events so far                                           *)
(***************************************************************************)
MaxTyped == 3

\* the texts the user may leave in the input
Inputs ==
    { <<>>, <<"M">>, <<"M", "o">>, <<"m", "o">>, <<"m", "o", " ">>, <<"t", "o">> }

toLowerCase(text) ==
    [i \in DOMAIN text |-> IF text[i] = "M" THEN "m" ELSE IF text[i] = "T" THEN "t" ELSE text[i]]

RECURSIVE trimEnd(_)
trimEnd(text) ==
    IF text # <<>> /\ text[Len(text)] = " " THEN trimEnd(SubSeq(text, 1, Len(text) - 1))
    ELSE text

RECURSIVE trimStart(_)
trimStart(text) ==
    IF text # <<>> /\ Head(text) = " " THEN trimStart(Tail(text)) ELSE text

\* query.toLowerCase().trim()
geocodingCacheKey(query) == trimStart(trimEnd(toLowerCase(query)))

hideLocationDropdown(s) == [s EXCEPT !.hidden = TRUE, !.results = <<>>]

\* showLocationDropdown(results), the results being those of the search for query
showLocationDropdown(s, query, found) ==
    [s EXCEPT !.hidden = FALSE, !.results = <<[query |-> query, found |-> found]>>]

\* clearTimeout(this.debounceTimer); this.debounceTimer = setTimeout(..., 300)
searchWithDebounce(s, query) ==
    [s EXCEPT !.timer = <<[id |-> s.typed + 1, query |-> query]>>]

handleLocationSearch(s, query) ==
    IF Len(query) < 2 THEN hideLocationDropdown(s)
    ELSE searchWithDebounce(s, query)

\* the timer callback up to the await of fetch, or to the callback for a cached
\* or a too short query
searchStarted(s, entry) ==
    IF Len(entry.query) < 2 THEN showLocationDropdown(s, entry.query, FALSE)
    ELSE IF geocodingCacheKey(entry.query) \in s.known
         THEN showLocationDropdown(s, entry.query, TRUE)
         ELSE [s EXCEPT !.flights = @ \cup {entry}]

\* searchLocations from the answer of its request to the callback
searchFinished(s, entry, ok) ==
    showLocationDropdown(
        [s EXCEPT !.flights = @ \ {entry},
                  !.known = IF ok THEN @ \cup {geocodingCacheKey(entry.query)} ELSE @],
        entry.query, ok)

InitSearch ==
    /\ tz = "UTC"
    /\ now = 0
    /\ cache = <<>>
    /\ DatesIdle
    /\ UiIdle
    /\ BatchIdle
    /\ AppIdle

\* an input event: the text of the input has changed
TypeQuery ==
    /\ search.typed < MaxTyped
    /\ \E query \in Inputs \ {search.query} :
          search' = [handleLocationSearch(search, query) EXCEPT
                        !.query = query, !.typed = @ + 1]
    /\ UNCHANGED <<envVars, cache, dateVars, pull, batchVars, appVars>>

DebounceFires ==
    /\ search.timer # <<>>
    /\ search' = searchStarted([search EXCEPT !.timer = <<>>], search.timer[1])
    /\ UNCHANGED <<envVars, cache, dateVars, pull, batchVars, appVars>>

SearchAnswered ==
    /\ \E entry \in search.flights, ok \in BOOLEAN :
          search' = searchFinished(search, entry, ok)
    /\ UNCHANGED <<envVars, cache, dateVars, pull, batchVars, appVars>>

NextSearch ==
    \/ TypeQuery
    \/ DebounceFires
    \/ SearchAnswered

SpecSearch == InitSearch /\ [][NextSearch]_vars

(***************************************************************************)
(* SpecPull: PullToRefresh.  One finger touches the screen, moves and       *)
(* lifts, at most MaxGestures times with at most MaxMoves move events       *)
(* each; between two gestures the page may be scrolled.  refresh() ends in  *)
(* a reload of the page, which constructs PullToRefresh anew.  The variable *)
(* pull holds the fields startY, currentY, isDragging and                   *)
(*   touching   a finger is on the screen                                   *)
(*   scrollY    window.scrollY                                              *)
(*   atTop      the gesture in progress, or the last one, started with the  *)
(*              page scrolled to the top                                    *)
(*   moves      its move events                                             *)
(*   down       the farthest the finger was below its start point at a      *)
(*              move event of that gesture                                  *)
(*   gestures   gestures started so far                                     *)
(*   refreshed  the last touchend called refresh()                          *)
(***************************************************************************)
MaxGestures == 2

MaxMoves == 2

threshold == 80

\* clientY of the touch events and the scroll positions of the page
TouchYs == {20, 60, 100, 200}

ScrollYs == {0, 300}

handleTouchStart(p, y) ==
    IF p.scrollY = 0 THEN [p EXCEPT !.startY = y, !.isDragging = TRUE] ELSE p

\* the indicator apart, handleTouchMove stores the position of the finger
handleTouchMove(p, y) ==
    IF ~ p.isDragging THEN p ELSE [p EXCEPT !.currentY = y]

\* the page as the reload leaves it: the fields the constructor sets
Reloaded(p) ==
    [p EXCEPT !.startY = NoPull.startY, !.currentY = NoPull.currentY,
              !.isDragging = NoPull.isDragging, !.scrollY = NoPull.scrollY,
              !.refreshed = TRUE]

handleTouchEnd(p) ==
    IF ~ p.isDragging THEN [p EXCEPT !.refreshed = FALSE]
    ELSE IF p.currentY - p.startY >= threshold
         THEN Reloaded(p)
         ELSE [p EXCEPT !.isDragging = FALSE, !.refreshed = FALSE]

InitPull ==
    /\ tz = "UTC"
    /\ now = 0
    /\ cache = <<>>
    /\ DatesIdle
    /\ UiIdle
    /\ BatchIdle
    /\ AppIdle

TouchStart ==
    /\ ~ pull.touching
    /\ pull.gestures < MaxGestures
    /\ \E y \in TouchYs :
          pull' = [handleTouchStart(pull, y) EXCEPT
                      !.touching = TRUE, !.atTop = pull.scrollY = 0, !.moves = 0,
                      !.down = 0, !.gestures = @ + 1, !.refreshed = FALSE]
    /\ UNCHANGED <<envVars, cache, dateVars, search, batchVars, appVars>>

TouchMove ==
    /\ pull.touching
    /\ pull.moves < MaxMoves
    /\ \E y \in TouchYs :
          pull' = [handleTouchMove(pull, y) EXCEPT
                      !.moves = @ + 1,
                      !.down = IF pull.isDragging /\ y - pull.startY > @
                               THEN y - pull.startY ELSE @]
    /\ UNCHANGED <<envVars, cache, dateVars, search, batchVars, appVars>>

TouchEnd ==
    /\ pull.touching
    /\ pull' = [handleTouchEnd(pull) EXCEPT !.touching = FALSE]
    /\ UNCHANGED <<envVars, cache, dateVars, search, batchVars, appVars>>

\* the page is scrolled while no finger is on the screen
Scroll ==
    /\ ~ pull.touching
    /\ pull.gestures < MaxGestures
    /\ \E y \in ScrollYs \ {pull.scrollY} : pull' = [pull EXCEPT !.scrollY = y]
    /\ UNCHANGED <<envVars, cache, dateVars, search, batchVars, appVars>>

NextPull ==
    \/ TouchStart
    \/ TouchMove
    \/ TouchEnd
    \/ Scroll

SpecPull == InitPull /\ [][NextPull]_vars

(***************************************************************************)
(* SpecNav: the application constructed at noon or at midnight of any day   *)
(* of two years, with nothing saved and no location selected (a month load  *)
(* returns at once); navigateToPreviousMonth and navigateToNextMonth are    *)
(* called any number of times.  dpc, darg and dret record the handler       *)
(* called last, the month it met and the month it left.                     *)
(***************************************************************************)
NavZones == {"UTC", "NewYork"}

NavStartTimes(zone) ==
    { DateOfDay(zone, z) + h :
        z \in DaysFromCivil(FirstYear, 1, 1) .. (DaysFromCivil(FirstYear + 2, 1, 1) - 1),
        h \in {0, 12} }

InitNav ==
    /\ tz \in NavZones
    /\ now \in NavStartTimes(tz)
    /\ DatesIdle
    /\ UiIdle
    /\ BatchIdle
    /\ events = 0
    /\ overlap = 0
    /\ Starts(initializeApp(Constructed(tz, now), SavedNothing))

\* the handler is called and leads to the state after
Handled(handler, after) ==
    /\ Becomes(after)
    /\ dpc' = handler
    /\ darg' = currentMonth
    /\ dret' = after.currentMonth
    /\ UNCHANGED <<envVars, uiVars, batchVars, events, overlap>>

CallNavigateToPreviousMonth ==
    Handled("navigateToPreviousMonth", navigateToPreviousMonth(App))

CallNavigateToNextMonth ==
    Handled("navigateToNextMonth", navigateToNextMonth(App))

NextNav ==
    \/ CallNavigateToPreviousMonth
    \/ CallNavigateToNextMonth

SpecNav == InitNav /\ [][NextNav]_vars

(***************************************************************************)
(* Claims about DateCalculations                                            *)
(***************************************************************************)
\* the calendar day (day number) a Date shows in the browser's zone
CalDay(t) == LocalDay(tz, t)

IsLocalMidnight(t) == getHours(tz, t) = 0

\* the four candidate solstices of a date, as calendar days
CandidateDays(t) ==
    LET y == getFullYear(tz, t)
    IN { DaysFromCivil(y, 6, 21), DaysFromCivil(y, 12, 21),
         DaysFromCivil(y - 1, 12, 21), DaysFromCivil(y + 1, 12, 21) }

\* C1: calculateMirrorDate(d) is the calendar date s - (d - s), counted in whole
\* calendar days, where s = getNearestSolstice(d), across month and year boundaries.
C1_MirrorIsReflection ==
    dpc = "calculateMirrorDate" =>
        /\ IsLocalMidnight(dret)
        /\ CalDay(dret) = 2 * CalDay(getNearestSolstice(tz, darg)) - CalDay(darg)

\* C2: getNearestSolstice(d) is the local midnight of one of June 21 and December 21
\* of d's year, December 21 of the year before and December 21 of the year after,
\* and none of these four is strictly closer to d in days.
C2_NearestSolstice ==
    dpc = "getNearestSolstice" =>
        /\ IsLocalMidnight(dret)
        /\ CalDay(dret) \in CandidateDays(darg)
        /\ \A c \in CandidateDays(darg) :
              ~ (Abs(c - CalDay(darg)) < Abs(CalDay(dret) - CalDay(darg)))

\* the nearest solstice lies in another year than the date (2025-01-05 -> 2024-12-21)
C2_Witness ==
    /\ dpc = "getNearestSolstice"
    /\ getFullYear(tz, dret) = getFullYear(tz, darg) - 1
    /\ CivilFromDays(CalDay(darg)) = [y |-> 2025, m |-> 1, d |-> 5]
    /\ CivilFromDays(CalDay(dret)) = [y |-> 2024, m |-> 12, d |-> 21]

(***************************************************************************)
(* Claims about getBatchTwilightTimes                                       *)
(***************************************************************************)
BatchSettled == bcall.state \in {"resolved", "rejected"}

\* the calendar date (day number) of every input position
InputDay == [k \in 1 .. Len(bdates) |-> CalDay(bdates[k])]

Range(f) == { f[k] : k \in DOMAIN f }

\* C3: the call returns a sequence of the length and order of dates (empty, with no
\* lookup made, for an empty input), and two positions that hold the same calendar
\* date receive the identical record.
C3_BatchSameLengthAndOrder ==
    (bcalls > 0 /\ BatchSettled) =>
        \A day \in {InputDay} :
        /\ bcall.state = "resolved"
        /\ Len(bcall.ret) = Len(bdates)
        /\ (Len(bdates) = 0 => (bcall.ret = <<>> /\ bcall.lookups = 0))
        /\ \A j, k \in 1 .. Len(bdates) :
              day[j] = day[k] => bcall.ret[j] = bcall.ret[k]
        /\ \A k \in 1 .. Len(bdates) :
              bcall.ret[k].iso # <<>> => bcall.ret[k].iso[1] = formatDateForAPI(bdates[k])

\* a date repeated around another one, each position holding the record of its own date
C3_Witness ==
    /\ bcall.state = "resolved"
    /\ Len(bdates) = 5
    /\ \E day \in {InputDay} :
          day[1] = day[3] /\ day[2] = day[5] /\ Cardinality(Range(day)) = 3
    /\ bcall.ret[1] = bcall.ret[3]
    /\ bcall.ret[1] # bcall.ret[2]
    /\ \A k \in 1 .. 5 : bcall.ret[k].error = ""

IsBatchFallback(r) ==
    /\ r.dawn = "N/A" /\ r.sunrise = "N/A" /\ r.sunset = "N/A" /\ r.dusk = "N/A"
    /\ r.error # ""

Last(log) == log[Len(log)]

\* ceil(n / c)
CeilDiv(n, c) == (n + c - 1) \div c

\* the chunk size the load is to work with: 5 in symmetry mode, 10 in comparison mode
SizeOfChunks(load) == IF load.view = "symmetry" THEN 5 ELSE 10

\* C6 as claimed: once a newer load has started, an earlier load makes no render.
C6_NoRenderOnceSuperseded ==
    [][\A l \in DOMAIN loads :
          l < Len(loads) => Len(loads'[l].renderLog) = Len(loads[l].renderLog)]_vars

\* C7: a load in which no chunk fails makes one render of the unenriched dataset and
\* one after each chunk, the k-th chunk's render showing the records of the first k
\* chunks enriched; settled, it has made exactly 1 + ceil(n / c) renders.
C7_RendersPerLoad ==
    \A l \in DOMAIN loads :
        loads[l].logged = 0 =>
            \A n \in {Len(loads[l].data)}, c \in {SizeOfChunks(loads[l])} :
            /\ Len(loads[l].renderLog) <= 1 + CeilDiv(n, c)
            /\ loads[l].pc = "done" => Len(loads[l].renderLog) = 1 + CeilDiv(n, c)
            /\ \A r \in DOMAIN loads[l].renderLog :
                  /\ loads[l].renderLog[r].chunk = (IF r = 1 THEN 0 ELSE r - 2)
                  /\ loads[l].renderLog[r].enriched = Min((r - 1) * c, n)

\* a month of 30 days loaded in the symmetry view with 7 renders, and one loaded in
\* the comparison view with 4
C7_Witness ==
    \E l, m \in DOMAIN loads :
        /\ loads[l].pc = "done" /\ loads[l].logged = 0
        /\ loads[l].view = "symmetry"
        /\ Len(loads[l].data) = 30 /\ Len(loads[l].renderLog) = 7
        /\ loads[m].pc = "done" /\ loads[m].logged = 0
        /\ loads[m].view = "cities"
        /\ Len(loads[m].data) = 30 /\ Len(loads[m].renderLog) = 4

\* C8: the first render of every load hands over every record of the dataset, none
\* of them enriched, and is made before any lookup of the load: no chunk fetch is
\* started before it.
C8_UnenrichedRenderFirst ==
    \A l \in DOMAIN loads :
        /\ Len(loads[l].renderLog) >= 1
        /\ loads[l].renderLog[1].records = Len(loads[l].data)
        /\ loads[l].renderLog[1].enriched = 0
        /\ loads[l].renderLog[1].lookups = 0
        /\ ~ loads[l].renderLog[1].caught
        /\ \A i \in DOMAIN loads[l].issueLog : loads[l].issueLog[i].renders >= 1

\* the first lookups of a load are in flight, its unenriched dataset rendered
C8_Witness ==
    \E l \in DOMAIN loads :
        /\ loads[l].lookups > 0
        /\ PendingLookups(loads[l].calls) > 0
        /\ Len(loads[l].renderLog) = 1
        /\ loads[l].renderLog[1].lookups = 0
        /\ loads[l].renderLog[1].records = 30
        /\ loads[l].issueLog # <<>>
        /\ loads[l].issueLog[1].renders = 1

\* C9: the fetch of chunk i is started when the renders of the unenriched dataset and
\* of the chunks before i have been made, the last of them the render of chunk i - 1,
\* and no lookup of the load is unresolved; unresolved lookups belong to the chunk at
\* work.
C9_ChunksInSequence ==
    \A l \in DOMAIN loads :
        /\ \A i \in DOMAIN loads[l].issueLog :
              /\ loads[l].issueLog[i].chunk = i - 1
              /\ loads[l].issueLog[i].renders = i
              /\ loads[l].issueLog[i].unsettled = 0
              /\ i > 1 =>
                    /\ loads[l].renderLog[i].chunk = i - 2
                    /\ ~ loads[l].renderLog[i].caught
                    /\ loads[l].renderLog[i].enriched > loads[l].renderLog[i - 1].enriched
        /\ \A k \in DOMAIN loads[l].calls :
              PendingLookups(<<loads[l].calls[k]>>) > 0 =>
                  /\ loads[l].calls[k].chunk = loads[l].chunkIndex
                  /\ loads[l].pc # "pause"

\* the lookups of the third chunk of a load are in flight, the first two chunks
\* rendered
C9_Witness ==
    \E l \in DOMAIN loads :
        /\ loads[l].chunkIndex = 2
        /\ Len(loads[l].issueLog) = 3
        /\ Len(loads[l].renderLog) = 3
        /\ PendingLookups(loads[l].calls) > 0

\* C10: a load whose catch block has run has logged once, has made its last render
\* in the catch block, of the dataset as enriched by the chunks before, has started
\* no fetch after it, and has settled; a load whose catch block has not run has made
\* no such render.
C10_CatchRendersAndSettles ==
    \A l \in DOMAIN loads :
        /\ loads[l].logged <= 1
        /\ \A r \in DOMAIN loads[l].renderLog :
              loads[l].renderLog[r].caught => (loads[l].logged = 1 /\ r = Len(loads[l].renderLog))
        /\ loads[l].logged = 1 =>
              /\ loads[l].pc = "done"
              /\ Last(loads[l].renderLog).caught
              /\ Last(loads[l].renderLog).records = Len(loads[l].data)
              /\ Last(loads[l].renderLog).enriched = Enriched(loads[l])
              /\ Last(loads[l].renderLog).enriched
                    = loads[l].renderLog[Len(loads[l].renderLog) - 1].enriched
              /\ \A i \in DOMAIN loads[l].issueLog :
                    loads[l].issueLog[i].chunk <= Last(loads[l].renderLog).chunk
              /\ (loads[l].awaited /\ Len(loads) = l) => ~ isLoading

\* the location was cleared while a load paused after its first chunk: the load has
\* logged, rendered the month with its first chunk enriched and settled, the other
\* chunks unprocessed
C10_Witness ==
    \E l \in DOMAIN loads :
        /\ loads[l].logged = 1
        /\ loads[l].pc = "done"
        /\ loads[l].view = "symmetry"
        /\ loads[l].chunkIndex = 1
        /\ Len(loads[l].renderLog) = 3
        /\ Last(loads[l].renderLog).caught
        /\ Last(loads[l].renderLog).enriched = 5
        /\ Len(loads[l].data) = 30
        /\ currentLocation = null

(***************************************************************************)
(* Claims about the comparison view                                         *)
(***************************************************************************)
\* the record holds the four times of the date at the place, with no error
Populated(record, date, place) ==
    /\ record.error = ""
    /\ ~ record.fallback
    /\ record.dawn = "HH:MM" /\ record.sunrise = "HH:MM"
    /\ record.sunset = "HH:MM" /\ record.dusk = "HH:MM"
    /\ record.iso = generateCacheKey(date, place)

\* the records of the chunks the load has rendered
Rendered(load) ==
    {k \in DOMAIN load.data :
        \E r \in DOMAIN load.renderLog :
            /\ ~ load.renderLog[r].caught
            /\ r > 1
            /\ k <= (r - 1) * SizeOfChunks(load)}

\* C11: while city 2 is the place whose every lookup fails (city 1 never is), every
\* record of a chunk the comparison load has rendered holds the times of city 1 with
\* no error and a city2Twilight with error set, and the cities columns show them.
C11_CitiesFailApart ==
    \A l \in DOMAIN loads :
        (loads[l].view = "cities" /\ city2 = Named("Tromso", Tromso)) =>
            /\ \A k \in Rendered(loads[l]) :
                  /\ Populated(loads[l].data[k].city1Twilight, loads[l].data[k].date, Montreal)
                  /\ loads[l].data[k].city2Twilight.error # ""
                  /\ loads[l].data[k].city2Twilight.iso = <<>>
            /\ (shown.cities.kind = "data" /\ shown.cities.load = l) =>
                  \A k \in Rendered(loads[l]) : shown.cities.data[k] = loads[l].data[k]

\* a month compared between Montreal and Tromso has been loaded: all the 30 records
\* shown hold Montreal's times and Tromso's error
C11_Witness ==
    \E l \in DOMAIN loads :
        /\ loads[l].view = "cities" /\ loads[l].pc = "done" /\ loads[l].logged = 0
        /\ city2 = Named("Tromso", Tromso)
        /\ Cardinality(Rendered(loads[l])) = 30
        /\ shown.cities = [kind |-> "data", load |-> l, data |-> loads[l].data]
        /\ \A k \in 1 .. 30 :
              /\ shown.cities.data[k].city1Twilight.error = ""
              /\ shown.cities.data[k].city1Twilight.dawn = "HH:MM"
              /\ shown.cities.data[k].city2Twilight.error = "request failed"

\* the cities whose fetch of the chunk at work the load holds
CitiesFetching(load) ==
    {load.calls[k].city : k \in {j \in DOMAIN load.calls :
                                    load.calls[j].chunk = load.chunkIndex}}

\* the renders the load made outside its catch block
PlainRenders(load) ==
    Cardinality({r \in DOMAIN load.renderLog : ~ load.renderLog[r].caught})

\* C12: a comparison load that awaits the fetches of a chunk has started the fetch of
\* city 1 and the fetch of city 2, and as long as one of them has not completed no
\* record of the chunk is written and the chunk is not rendered.
C12_CitiesJoined ==
    \A l \in DOMAIN loads :
        loads[l].view = "cities" =>
            /\ loads[l].pc = "fetch" => CitiesFetching(loads[l]) = {1, 2}
            /\ Live(loads[l].calls) # <<>> =>
                  /\ \A k \in ChunkLow(loads[l]) .. ChunkHigh(loads[l]) :
                        /\ loads[l].data[k].city1Twilight = NoTwilight
                        /\ loads[l].data[k].city2Twilight = NoTwilight
                  /\ PlainRenders(loads[l]) = loads[l].chunkIndex + 1
                  /\ \A k \in DOMAIN loads[l].calls :
                        loads[l].calls[k].chunk = loads[l].chunkIndex

\* city 2's fetch of a chunk has run and completed while lookups of city 1's fetch
\* are in flight: the chunk is unwritten
C12_Witness ==
    \E l \in DOMAIN loads :
        /\ loads[l].view = "cities" /\ loads[l].pc = "fetch"
        /\ Len(loads[l].calls) = 2
        /\ loads[l].calls[1].city = 1 /\ loads[l].calls[2].city = 2
        /\ PendingLookups(<<loads[l].calls[1]>>) > 0
        /\ loads[l].calls[2].call.state = "resolved"
        /\ loads[l].data[ChunkLow(loads[l])].city2Twilight = NoTwilight

(***************************************************************************)
(* Claims about the lookups of the TwilightClient                           *)
(***************************************************************************)
\* the lookups of the call that are in flight
InFlightOf(call) == {j \in DOMAIN call.slots : call.slots[j].st = "pending"}

\* C13: a call has at most 2 lookups in flight; the batch at work starts at an even
\* rank of the unique dates and holds at most 2 of them, the lookups of all batches
\* before it have resolved and their records are collected, and during the pause
\* between two batches no lookup is in flight.
C13_AtMostTwoInFlight ==
    /\ Cardinality(InFlightOf(bcall)) <= 2
    /\ Len(bcall.slots) <= 2
    /\ bcall.state = "waiting" =>
          /\ bcall.i % 2 = 0
          /\ Len(bcall.results) = bcall.i
          /\ bcall.lookups = Min(bcall.i + 2, Len(bcall.unique))
    /\ bcall.state = "paused" =>
          /\ InFlightOf(bcall) = {}
          /\ Len(bcall.results) = bcall.i + 2
          /\ bcall.lookups = Len(bcall.results)

\* three distinct dates: the third is looked up alone after the first two resolved
\* and the pause
C13_Witness ==
    /\ bcall.state = "waiting"
    /\ Len(bcall.unique) = 3
    /\ bcall.i = 2
    /\ bcall.pauses = 1
    /\ Len(bcall.results) = 2
    /\ Cardinality(InFlightOf(bcall)) = 1
    /\ bcall.lookups = 3

\* the key of the lookup under check: its date and its coordinates in units of 0.0001
\* degree, which are those of Montreal for both places looked up
LookupKey == <<formatDateForAPI(lookup.date), 455000, -736000>>

\* C14: a call that meets a cached record of its key younger than 24 hours returns
\* that record and sends no request, the cache unchanged; a call that meets a record
\* 24 hours old or older removes it and sends a request, as does a call that meets
\* none.  The key holds the coordinates rounded to 4 decimals.
C14_CacheFor24Hours ==
    (lookup.calls > 0 /\ lookup.loc.known) =>
        /\ \A key \in DOMAIN cache : key[2] = 455000 /\ key[3] = -736000
        /\ (lookup.found # <<>> /\ lookup.at - lookup.found[1].timestamp < 24) =>
              /\ lookup.state = "resolved"
              /\ lookup.ret = lookup.found[1].data
              /\ lookup.sent = 0
              /\ LookupKey \in DOMAIN cache
              /\ cache[LookupKey] = lookup.found[1]
        /\ (lookup.found # <<>> /\ lookup.at - lookup.found[1].timestamp >= 24) =>
              /\ lookup.sent = 1
              /\ lookup.state = "pending" => LookupKey \notin DOMAIN cache
              /\ LookupKey \in DOMAIN cache => cache[LookupKey].timestamp >= lookup.at
        /\ lookup.found = <<>> => lookup.sent = 1

\* a record cached for Montreal has served a call and, 24 hours old, is met by a call
\* for the place nearby: it is removed and a request is on its way
C14_Witness ==
    /\ lookup.loc = MontrealNearby
    /\ lookup.hits = 1
    /\ lookup.found # <<>>
    /\ lookup.at - lookup.found[1].timestamp = 24
    /\ lookup.found[1].data.iso = generateCacheKey(lookup.date, Montreal)
    /\ lookup.state = "pending"
    /\ lookup.sent = 1
    /\ LookupKey \notin DOMAIN cache

\* C15: getTwilightTimes never throws or rejects: whatever the date, the
\* location and the answer of the network, a call that has returned has
\* resolved to a record.  (Violated: generateCacheKey runs before the try
\* block, and lat.toFixed throws when lat is not a number.)
C15_NeverRejects ==
    lookup.calls > 0 => lookup.state \in {"pending", "resolved"}

(***************************************************************************)
(* Further claims about DateCalculations                                    *)
(***************************************************************************)
\* C16: for every date d that is not a solstice and whose mirror has the same
\* nearest solstice as d, calculateMirrorDate(calculateMirrorDate(d)) = d.
C16_MirrorOfMirror ==
    dpc = "mirrorOfMirror" =>
        \A nearest \in {getNearestSolstice(tz, darg)} :
            ( /\ darg # nearest
              /\ getNearestSolstice(tz, calculateMirrorDate(tz, darg)) = nearest )
            => dret = darg

\* C17: the date getNearestSolstice(d) returns is at most 183 days away from d.
C17_SolsticeWithin183Days ==
    dpc = "getNearestSolstice" => Abs(CalDay(dret) - CalDay(darg)) <= 183

\* a date as far from its nearest solstice as a date can be
C17_Witness ==
    /\ dpc = "getNearestSolstice"
    /\ Abs(CalDay(dret) - CalDay(darg)) = 91

\* the candidate solstices of a date as calendar days, in the order June 21 of
\* the date's year, December 21 of the year, of the year before, of the year after
CandidatesInOrder(t) ==
    LET y == getFullYear(tz, t)
    IN << DaysFromCivil(y, 6, 21), DaysFromCivil(y, 12, 21),
          DaysFromCivil(y - 1, 12, 21), DaysFromCivil(y + 1, 12, 21) >>

\* C20: when a date is equally far in days from two candidate solstices,
\* getNearestSolstice returns the one that comes first in that order: it never
\* returns a candidate while an earlier one is equally far from the date.
C20_FirstCandidateWinsTie ==
    dpc = "getNearestSolstice" =>
        \A c \in {CandidatesInOrder(darg)} :
            \A i, j \in 1 .. 4 :
                (i < j /\ Abs(c[i] - CalDay(darg)) = Abs(c[j] - CalDay(darg)))
                    => CalDay(dret) # c[j]

\* the number of days of a month of the Gregorian calendar
IsLeapYear(y) == (y % 4 = 0 /\ y % 100 # 0) \/ y % 400 = 0

CalendarDaysInMonth(y, m) ==
    IF m = 2 THEN (IF IsLeapYear(y) THEN 29 ELSE 28)
    ELSE IF m \in {4, 6, 9, 11} THEN 30 ELSE 31

\* C18: getMonthDates(year, month) returns every calendar day of the month once,
\* in ascending order: as many dates as the month has days (29 for February 2024,
\* 28 for February 2023), the k-th being day k of the month.
C18_MonthDates ==
    dpc = "getMonthDates" =>
        \A y \in {getFullYear(tz, darg)}, m \in {getMonth(tz, darg) + 1} :
            /\ Len(dret) = CalendarDaysInMonth(y, m)
            /\ \A k \in 1 .. Len(dret) :
                  CivilFromDays(CalDay(dret[k])) = [y |-> y, m |-> m, d |-> k]
            /\ \A k \in 1 .. (Len(dret) - 1) : dret[k] < dret[k + 1]
            /\ (y = 2024 /\ m = 2) => Len(dret) = 29
            /\ (y = 2023 /\ m = 2) => Len(dret) = 28

\* February of a leap year
C18_Witness ==
    /\ dpc = "getMonthDates"
    /\ getFullYear(tz, darg) = 2024
    /\ getMonth(tz, darg) = 1
    /\ Len(dret) = 29
    /\ CivilFromDays(CalDay(dret[29])) = [y |-> 2024, m |-> 2, d |-> 29]

\* C19: getMonthWithMirrors(year, month) returns one entry per date of
\* getMonthDates(year, month), in the same order: current is that date, mirrored is
\* calculateMirrorDate(current), and isToday is true exactly when current is the
\* calendar day of the clock at the call, whatever the time of the day.
C19_MonthWithMirrors ==
    dpc = "getMonthWithMirrors" =>
        \A dates \in {getMonthDates(tz, getFullYear(tz, darg), getMonth(tz, darg) + 1)} :
            /\ Len(dret) = Len(dates)
            /\ \A k \in 1 .. Len(dates) :
                  /\ dret[k].current = dates[k]
                  /\ dret[k].mirrored = calculateMirrorDate(tz, dates[k])
                  /\ dret[k].isToday <=> CalDay(dates[k]) = CalDay(now)

\* the call is made in the afternoon of a day of the month: that day alone is today
C19_Witness ==
    /\ dpc = "getMonthWithMirrors"
    /\ getHours(tz, now) = 13
    /\ \E k \in 1 .. Len(dret) :
          /\ dret[k].isToday
          /\ dret[k].current < now
          /\ \A j \in (1 .. Len(dret)) \ {k} : ~ dret[j].isToday


\* C23: in the result of getMonthWithMirrors the current dates ascend and the
\* mirrored dates descend: the mirrored date of every pair is strictly earlier
\* than the mirrored date of the pair before it.
C23_MirroredDescending ==
    dpc = "getMonthWithMirrors" =>
        \A k \in 2 .. Len(dret) :
            /\ dret[k - 1].current < dret[k].current
            /\ dret[k].mirrored < dret[k - 1].mirrored


\* C24: getMonthDates and getMonthWithMirrors called with a month outside 1 .. 12
\* fail with an error: they do not return the dates of another month or year.
C24_MonthOutsideFails ==
    dpc \in {"getMonthDatesOutside", "getMonthWithMirrorsOutside"} => dret.thrown


\* the cache key of input position k of the call
KeyOfPosition(k) == generateCacheKey(bdates[k], bloc)

\* C25: within one getBatchTwilightTimes call, when the lookup of a date fails
\* (failed request, HTTP error, rate limit, malformed response) the positions of
\* that date hold a record with error set that is not the fallback of the whole
\* batch, and the positions of every other date hold the record their own lookup
\* returned; the call does not end in its catch block.
C25_FailureStaysLocal ==
    (bcalls > 0 /\ BatchSettled /\ bloc.known) =>
        /\ bcall.state = "resolved"
        /\ ~ bcall.caught
        /\ \A k \in 1 .. Len(bdates) :
              /\ bcall.dateKeys[k] \in bcall.failed =>
                    /\ bcall.ret[k].error \notin {"", "Batch fetch failed"}
                    /\ bcall.ret[k].iso = <<>>
              /\ bcall.dateKeys[k] \notin bcall.failed =>
                    /\ KeyOfPosition(k) \in DOMAIN cache
                    /\ bcall.ret[k] = cache[KeyOfPosition(k)].data
              /\ bcall.ret[k].error = "" => bcall.ret[k] = TimeRecord(KeyOfPosition(k))

\* the first call for <<A, B, A, C, B>>: the lookup of B met the rate limit, those
\* of A and C returned the times
C25_Witness ==
    /\ bcalls = 1
    /\ bcall.state = "resolved"
    /\ Len(bdates) = 5
    /\ Cardinality(bcall.failed) = 1
    /\ bcall.dateKeys[2] \in bcall.failed
    /\ bcall.ret[2].error = ErrorMessage("429")
    /\ bcall.ret[5] = bcall.ret[2]
    /\ bcall.ret[1].error = "" /\ bcall.ret[3] = bcall.ret[1] /\ bcall.ret[4].error = ""
    /\ bcall.ret[4] # bcall.ret[1]


\* the records on display, two per row, and the cells rendered for them
RecordsShown ==
    [symmetry |-> [k \in DOMAIN shown.symmetry.data |->
                     [left |-> shown.symmetry.data[k].currentTwilight,
                      right |-> shown.symmetry.data[k].mirroredTwilight]],
     cities |-> [k \in DOMAIN shown.cities.data |->
                     [left |-> shown.cities.data[k].city1Twilight,
                      right |-> shown.cities.data[k].city2Twilight]]]

CellsShown ==
    [symmetry |-> renderSymmetryData(shown.symmetry.data),
     cities |-> renderCitiesData(shown.cities.data)]

\* the cell is what the claim requires for the record
CellFits(cell, record) ==
    /\ cell.content \in {"times", "API Error", "Loading..."}
    /\ cell.content = "times" =>
          /\ record # NoTwilight /\ record.error = ""
          /\ cell.dawn = record.dawn /\ cell.sunrise = record.sunrise
          /\ cell.sunset = record.sunset /\ cell.dusk = record.dusk
    /\ cell.content = "API Error" <=> record.error # ""
    /\ cell.content = "Loading..." <=> record = NoTwilight

\* C26: a rendered cell shows the dawn, sunrise, sunset and dusk times only for a
\* record without error, 'API Error' exactly when its record has error set, and
\* 'Loading...' exactly when it has no record yet; a cell whose lookup failed
\* (its record has error set) is never shown as still loading.
C26_CellShowsItsRecord ==
    \A cells \in {CellsShown}, records \in {RecordsShown} :
        \A view \in {"symmetry", "cities"} :
            \A k \in DOMAIN cells[view] :
                /\ CellFits(cells[view][k].left, records[view][k].left)
                /\ CellFits(cells[view][k].right, records[view][k].right)

\* the comparison view with the three kinds of cell: the first row shows the times
\* of city 1 and 'API Error' for city 2, whose lookups failed; the last row is loading
C26_Witness ==
    /\ shown.cities.kind = "data"
    /\ \E cells \in {CellsShown.cities} :
          /\ cells[1].left.content = "times"
          /\ cells[1].left.dawn = "HH:MM"
          /\ cells[1].right.content = "API Error"
          /\ shown.cities.data[1].city2Twilight.fallback
          /\ cells[Len(cells)].left.content = "Loading..."


\* the index of the last chunk of the load
FinalChunk(load) == CeilDiv(Len(load.data), SizeOfChunks(load)) - 1

\* the load has rendered the chunk at work (its last render, outside the catch block)
ChunkRendered(load) ==
    /\ Len(load.renderLog) = load.chunkIndex + 2
    /\ Last(load.renderLog).chunk = load.chunkIndex
    /\ ~ Last(load.renderLog).caught

\* the load waits for its timer exactly when it has rendered a chunk that is not
\* the last one; having rendered the last one it has completed
PausesOfLoad(load) ==
    /\ load.pc = "pause" <=> (ChunkRendered(load) /\ load.chunkIndex < FinalChunk(load))
    /\ ChunkRendered(load) /\ load.chunkIndex = FinalChunk(load) => load.pc = "done"
    /\ load.chunkIndex <= FinalChunk(load)

\* the call has paused after every batch before the one at work, and waits for its
\* timer only when dates are left for a further batch
PausesOfCall(call) ==
    /\ call.state = "waiting" => call.pauses = call.i \div 2
    /\ call.state = "paused" =>
          call.pauses = call.i \div 2 + 1 /\ call.i + 2 < Len(call.unique)

\* C27: in a month load a pause occurs after the render of every chunk but the
\* last one, and in getBatchTwilightTimes after every batch of lookups but the
\* last one; after the last chunk (batch) the operation completes without a
\* pause.  A load moves on to its next chunk, and a call to its next batch, only
\* from a pause.
C27_PauseBetweenChunks ==
    /\ [](\A l \in DOMAIN loads :
            /\ PausesOfLoad(loads[l])
            /\ \A k \in DOMAIN loads[l].calls : PausesOfCall(loads[l].calls[k].call))
    /\ [][\A l \in DOMAIN loads :
            /\ loads'[l].chunkIndex # loads[l].chunkIndex =>
                  (loads[l].pc = "pause" /\ loads'[l].chunkIndex = loads[l].chunkIndex + 1)
            /\ \A k \in DOMAIN loads[l].calls :
                  (k \in DOMAIN loads'[l].calls
                     /\ loads'[l].calls[k].chunk = loads[l].calls[k].chunk
                     /\ loads'[l].calls[k].city = loads[l].calls[k].city
                     /\ loads'[l].calls[k].call.i # loads[l].calls[k].call.i)
                  => loads[l].calls[k].call.state = "paused"]_vars

\* a load of 30 days in symmetry mode has completed after its sixth chunk: five
\* chunk pauses lie behind it
C27_Witness ==
    \E l \in DOMAIN loads :
        /\ loads[l].view = "symmetry"
        /\ loads[l].pc = "done"
        /\ loads[l].chunkIndex = 5
        /\ Len(loads[l].issueLog) = 6
        /\ ChunkRendered(loads[l])

(***************************************************************************)
(* Claims about the month navigation                                        *)
(***************************************************************************)
\* C21: navigateToPreviousMonth changes nothing when the displayed month is
\* January, navigateToNextMonth changes nothing when it is December, and after
\* any sequence of navigations the displayed year is the year displayed at start-up.
C21_NavigationStaysInYear ==
    /\ getFullYear(tz, currentMonth) = getFullYear(tz, now)
    /\ (dpc = "navigateToPreviousMonth" /\ getMonth(tz, darg) = 0) =>
            (currentMonth = darg /\ ~ isLoading /\ loads = <<>>)
    /\ (dpc = "navigateToNextMonth" /\ getMonth(tz, darg) = 11) =>
            (currentMonth = darg /\ ~ isLoading /\ loads = <<>>)

\* navigateToPreviousMonth has been called in January, after navigations from June
C21_Witness ==
    /\ dpc = "navigateToPreviousMonth"
    /\ getMonth(tz, darg) = 0
    /\ getMonth(tz, now) = 5
    /\ currentMonth = darg

\* C22: from a displayed month other than December navigateToNextMonth leads to
\* the month immediately after it, and from a month other than January
\* navigateToPreviousMonth to the month immediately before it, whatever the day
\* of the month held in currentMonth.
C22_AdjacentMonth ==
    /\ (dpc = "navigateToNextMonth" /\ getMonth(tz, darg) # 11) =>
            getMonth(tz, currentMonth) = getMonth(tz, darg) + 1
    /\ (dpc = "navigateToPreviousMonth" /\ getMonth(tz, darg) # 0) =>
            getMonth(tz, currentMonth) = getMonth(tz, darg) - 1


(***************************************************************************)
(* Claims about one month load of the symmetry view                         *)
(***************************************************************************)
\* the rank of the last record of chunk i of the load
HighOfChunk(load, i) == Min((i + 1) * SizeOfChunks(load), Len(load.data))

\* the records the chunks processed so far cover
Processed(load) ==
    IF Len(load.renderLog) < 2 \/ Last(load.renderLog).caught THEN 0
    ELSE HighOfChunk(load, Last(load.renderLog).chunk)

\* the keys of the current and mirrored dates of the records low .. high
KeysOfRecords(load, low, high) ==
    {formatDateKey(load.data[k].current) : k \in low .. high}
        \cup {formatDateKey(load.data[k].mirrored) : k \in low .. high}

\* the record the service returns for the date at the selected location
RecordFor(date) == TimeRecord(generateCacheKey(date, Coordinates(currentLocation)))

\* C28: in symmetry mode, after a chunk is processed each of its records has as
\* currentTwilight the record the batch fetch returned for the key of its current
\* date and as mirroredTwilight the record returned for the key of its mirrored
\* date; the batch fetch is sent each date key of the chunk once, also when the
\* date occurs in the chunk as a current and as a mirrored date.
C28_ScatterByKey ==
    \A l \in DOMAIN loads :
        /\ \A k \in 1 .. Processed(loads[l]) :
              /\ loads[l].data[k].currentTwilight = RecordFor(loads[l].data[k].current)
              /\ loads[l].data[k].mirroredTwilight = RecordFor(loads[l].data[k].mirrored)
        /\ \A c \in DOMAIN loads[l].calls :
              \A dates \in {loads[l].calls[c].call.dates} :
                  /\ \A p, q \in DOMAIN dates :
                        formatDateKey(dates[p]) = formatDateKey(dates[q]) => p = q
                  /\ {formatDateKey(dates[p]) : p \in DOMAIN dates} =
                        KeysOfRecords(loads[l],
                            loads[l].calls[c].chunk * SizeOfChunks(loads[l]) + 1,
                            HighOfChunk(loads[l], loads[l].calls[c].chunk))

\* the chunk of June 21 to 25 is processed: June 21 is its own mirror, nine dates
\* were looked up for the five records and its one record is in both places
C28_Witness ==
    \E l \in DOMAIN loads :
        /\ getMonth(tz, currentMonth) = 5
        /\ Processed(loads[l]) = 25
        /\ loads[l].data[21].current = loads[l].data[21].mirrored
        /\ loads[l].data[21].currentTwilight = loads[l].data[21].mirroredTwilight
        /\ loads[l].data[21].currentTwilight = RecordFor(loads[l].data[21].current)
        /\ loads[l].data[22].mirroredTwilight = loads[l].data[20].currentTwilight
        /\ loads[l].lookups = 4 * 10 + 9

\* the two twilight fields of record k of the load
TwilightOf(load, k) ==
    IF load.view = "symmetry"
    THEN <<load.data[k].currentTwilight, load.data[k].mirroredTwilight>>
    ELSE <<load.data[k].city1Twilight, load.data[k].city2Twilight>>

\* the dates and isToday of record k of the load
DatesOf(load, k) ==
    IF load.view = "symmetry"
    THEN <<load.data[k].current, load.data[k].mirrored, load.data[k].isToday>>
    ELSE <<load.data[k].date, load.data[k].isToday>>

\* C29: processing chunk i of a load changes the twilight fields of the records
\* of chunk i only (ranks i * c + 1 .. min((i + 1) * c, n), counted from 1); the
\* twilight fields of the other records and the dates and isToday of every record
\* are unchanged, a twilight field once set is not changed again, and the
\* successive renders of a load show a non-decreasing number of enriched records.
C29_ChunkFrame ==
    /\ [](\A l \in DOMAIN loads :
            \A r \in 2 .. Len(loads[l].renderLog) :
                loads[l].renderLog[r].enriched >= loads[l].renderLog[r - 1].enriched)
    /\ [][\A l \in DOMAIN loads :
            /\ DOMAIN loads'[l].data = DOMAIN loads[l].data
            /\ \A k \in DOMAIN loads[l].data :
                  /\ DatesOf(loads'[l], k) = DatesOf(loads[l], k)
                  /\ TwilightOf(loads'[l], k) # TwilightOf(loads[l], k) =>
                        /\ k > loads'[l].chunkIndex * SizeOfChunks(loads[l])
                        /\ k <= HighOfChunk(loads[l], loads'[l].chunkIndex)
                        /\ TwilightOf(loads[l], k) = <<NoTwilight, NoTwilight>>
                        /\ Len(loads'[l].renderLog) = Len(loads[l].renderLog) + 1]_vars

\* the second chunk of a load of the comparison view is processed: the records
\* 11 to 20 are set now, the records 1 to 10 before, the records from 21 on not yet
C29_Witness ==
    \E l \in DOMAIN loads :
        /\ loads[l].view = "cities"
        /\ Len(loads[l].renderLog) = 3
        /\ loads[l].renderLog[2].enriched = 10
        /\ loads[l].renderLog[3].enriched = 20
        /\ NoTwilight \notin {loads[l].data[11].city1Twilight, loads[l].data[20].city2Twilight}
        /\ loads[l].data[21].city1Twilight = NoTwilight

\* the requests in flight for the load
RequestsInFlight(load) == PendingLookups(load.calls)

\* C30: in symmetry mode, with an initially empty cache, every lookup succeeding
\* and no other load running, loading one month sends exactly one network request
\* per distinct date key among all current and mirrored dates of the month, also
\* when a date occurs in two chunks: no key is requested twice, and the load that
\* has completed has requested every key.
C30_OneRequestPerKey ==
    \A l \in DOMAIN loads :
        /\ loads[l].fetches = Cardinality(DOMAIN cache) + RequestsInFlight(loads[l])
        /\ loads[l].fetches <= Cardinality(KeysOfRecords(loads[l], 1, Len(loads[l].data)))
        /\ {key[1] : key \in DOMAIN cache} \subseteq KeysOfRecords(loads[l], 1, Len(loads[l].data))
        /\ loads[l].pc = "done" =>
              /\ ~ Last(loads[l].renderLog).caught
              /\ loads[l].fetches = Cardinality(KeysOfRecords(loads[l], 1, Len(loads[l].data)))

\* the load of June has completed: June 12 to 30 occur as current and as mirrored
\* dates, June 21 twice in one chunk and the others in two chunks, and the 41
\* distinct dates of the 60 were requested once each
C30_Witness ==
    \E l \in DOMAIN loads :
        /\ getMonth(tz, currentMonth) = 5
        /\ loads[l].pc = "done"
        /\ Len(loads[l].data) = 30
        /\ loads[l].lookups = 59
        /\ loads[l].fetches = 41
        /\ Cardinality(DOMAIN cache) = 41

\* the load has returned and none of its chunks raised an exception
SettledUncaught(load) == load.pc = "done" /\ load.logged = 0

\* C31: when every request completes in the end, every month load settles in the
\* end, and the records of a load that has settled without an exception in any
\* chunk all have both of their twilight fields set.
C31_LoadsSettle ==
    /\ \A l \in 1 .. MaxLoads :
          (l \in DOMAIN loads) ~> (l \in DOMAIN loads /\ loads[l].pc = "done")
    /\ [](\A l \in DOMAIN loads :
            SettledUncaught(loads[l]) =>
                \A k \in DOMAIN loads[l].data :
                    /\ TwilightOf(loads[l], k)[1] # NoTwilight
                    /\ TwilightOf(loads[l], k)[2] # NoTwilight)

\* a comparison load has settled without an exception after the user acted twice,
\* the lookups of one city having failed
C31_Witness ==
    \E l \in DOMAIN loads :
        /\ SettledUncaught(loads[l])
        /\ loads[l].view = "cities"
        /\ events = SettleEvents
        /\ loads[l].data[Len(loads[l].data)].city2Twilight.error # ""
        /\ loads[l].data[Len(loads[l].data)].city1Twilight.error = ""

\* C32: calculateMirrorDate(d) lies as many calendar days on one side of the nearest
\* solstice as d lies on the other, also when the local midnights of d and of the
\* solstice differ in their UTC offset by the hour of daylight-saving time.
C32_MirrorAcrossDaylightSaving ==
    (/\ dpc = "calculateMirrorDate"
     /\ IsDst(tz, darg) # IsDst(tz, getNearestSolstice(tz, darg))) =>
        CalDay(getNearestSolstice(tz, darg)) - CalDay(dret)
            = CalDay(darg) - CalDay(getNearestSolstice(tz, darg))

\* C33: the key formatDateKey and formatDateForAPI give to a date built at local
\* midnight is the day of that date's own year, month and day in every zone, and
\* two different dates of a month never get the same key.
C33_KeyIsOwnDay ==
    dpc = "getMonthDates" =>
        /\ \A k \in DOMAIN dret :
              /\ formatDateKey(dret[k]) = CalDay(dret[k])
              /\ formatDateForAPI(dret[k]) = CalDay(dret[k])
        /\ \A j, k \in DOMAIN dret :
              j # k => formatDateForAPI(dret[j]) # formatDateForAPI(dret[k])

\* C34: only records without error are stored in the cache of the TwilightClient,
\* and a getTwilightTimes call that follows a call which returned a record with
\* error set for the same key sends a new request.
C34_NoErrorInCache ==
    /\ \A key \in DOMAIN cache : cache[key].data.error = ""
    /\ (lookup.calls > 0 /\ lookup.found # <<>> /\ lookup.found[1].data.error # "") =>
          lookup.sent = 1

\* the requests that have been sent and not answered: load, call, slot
Outstanding ==
    {r \in UNION {UNION {{<<l, k, j>> : j \in DOMAIN loads[l].calls[k].call.slots} :
                            k \in DOMAIN loads[l].calls} : l \in DOMAIN loads} :
        loads[r[1]].calls[r[2]].call.slots[r[3]].st = "pending"}

\* the cache key of the lookup that sent the request
KeyOfRequest(r) ==
    generateCacheKey(
        loads[r[1]].calls[r[2]].call.dates[
            loads[r[1]].calls[r[2]].call.unique[loads[r[1]].calls[r[2]].call.i + r[3]]],
        loads[r[1]].calls[r[2]].call.loc)

\* C35: at any moment at most one request is outstanding for a cache key (date,
\* lat, lng), also when two loads overlap.
C35_OneRequestInFlightPerKey ==
    \A r, s \in Outstanding : r # s => KeyOfRequest(r) # KeyOfRequest(s)

\* the coordinates a record of the dataset was fetched for
FetchedFor(record) == <<record.iso[2], record.iso[3]>>

\* C36: the twilight records written into one column of one month dataset are all
\* fetched for the same location, the one selected when the load started, also
\* when the user selects another location while the load is in flight.
C36_OneLocationPerDataset ==
    \A l \in DOMAIN loads :
        \A j, k \in DOMAIN loads[l].data :
        \A p \in {1, 2} :
            (TwilightOf(loads[l], j)[p].iso # <<>> /\ TwilightOf(loads[l], k)[p].iso # <<>>) =>
                FetchedFor(TwilightOf(loads[l], j)[p]) = FetchedFor(TwilightOf(loads[l], k)[p])

\* C37: once clearLocationInput (in the cities view clearCityInput) has rendered
\* the empty state, the columns keep showing it until a location (a city) is
\* selected again: no load in flight renders month data over it.
C37_EmptyStateStays ==
    [][/\ (shown.symmetry = EmptyState /\ currentLocation = null) =>
              (shown'.symmetry = EmptyState \/ currentLocation' # null)
       /\ (shown.cities = EmptyState /\ (city1 = null \/ city2 = null)) =>
              (shown'.cities = EmptyState \/ (city1' # null /\ city2' # null))]_vars

\* C38: while a month load started by navigateToPreviousMonth, navigateToNextMonth,
\* selectLocation or selectCity is in flight, isLoading is true (the indicator is
\* shown).
C38_LoadingWhileInFlight ==
    (\E l \in DOMAIN loads : loads[l].awaited /\ loads[l].pc # "done") => isLoading

\* C39: once the text of a search input is shorter than 2 characters its dropdown
\* stays hidden until a text of at least 2 characters is typed, whatever search
\* was pending or in flight; and a dropdown that is shown holds the results of the
\* search for the text typed last.
C39_DropdownFollowsInput ==
    /\ [](~ search.hidden =>
            /\ search.results # <<>>
            /\ geocodingCacheKey(search.results[1].query) = geocodingCacheKey(search.query))
    /\ [][(search.hidden /\ Len(search.query) < 2) =>
            (search'.hidden \/ Len(search'.query) >= 2)]_vars

\* C40: a touchend calls refresh() only if, in the gesture it ends, which started
\* with the page scrolled to the top, a move event found the finger at least the
\* threshold below the start point of that gesture; a touch that ends without a
\* move event never calls refresh().
C40_RefreshOnlyAfterPull ==
    pull.refreshed =>
        /\ pull.atTop
        /\ pull.moves > 0
        /\ pull.down >= threshold

=============================================================================
